---- MODULE Spec2Model ----
(***************************************************************************)
(* A model of the software renderer (valrom/software-render).              *)
(*                                                                         *)
(* The module holds several units, each with its own specification:        *)
(*   SpecBuf  - Buffer<T> (src/src/buffers.rs)                             *)
(*   SpecTri  - Triangle / TriangleIter (src/src/raster.rs), w = 1         *)
(*   SpecTriW - the same scan converter with clip-space w varied           *)
(*   SpecMat  - Matrix4 / Vector4 products (src/src/math/matrices.rs)      *)
(*   SpecCall - single calls: Matrix4::projection, the Vector4 to Vector3  *)
(*              conversions, RasterTriangle::new (src/src/triangles.rs),   *)
(*              the edge values of TriangleIter::next and Rasterizer::next *)
(*   SpecRect - Rect2 and its iterator (src/src/raster.rs)                 *)
(*   SpecGame - the event loop of MyGame (src/examples/first.rs) with      *)
(*              WindowState::draw (src/src/window_state.rs)                *)
(*   SpecArea - RectI2 and its iterator (src/src/math/mod.rs)              *)
(*   SpecRasterizer - Rasterizer::new_with_cropping iterated               *)
(*              (src/src/triangles.rs)                                     *)
(*   SpecDrawing - the drawing Rect (src/src/drawing/rectangle.rs)         *)
(*   SpecLine - the drawing Line (src/src/drawing/line.rs)                 *)
(*   SpecApp  - App (src/src/game.rs) with a game that records its calls   *)
(* f32 values are rationals rounded to 24 significant bits after every     *)
(* operation; i32 values are integers far from the overflow range.         *)
(***************************************************************************)
EXTENDS Integers, Sequences, FiniteSets, TLC

VARIABLES
    unit,       \* which unit this behaviour exercises
    buffer,     \* the Buffer<T> object: Option<Buffer>
    bufLast,    \* the last Buffer call: its arguments, result and the buffer before it
    panicked,   \* TRUE once an index panic has aborted the program
    matChain,   \* the Matrix4 values multiplied so far, left to right
    matAcc,     \* their product as computed by Mul<Matrix4> for Matrix4
    matLast,    \* the last matrix product: its operands and result
    vecV,       \* a Vector4 to transform
    vecOut,     \* the last transform of vecV: by the product, and matrix by matrix
    triInput,   \* the Triplet4 handed to Triangle::new
    triStage,   \* "input", then "new" after Triangle::new, then "iter" after into_iter
    triangle,   \* Option<Triangle>: the result of Triangle::new
    triIter,    \* the TriangleIter
    triLast,    \* what the last TriangleIter::next returned: "some" or "none"
    fragments,  \* the fragments yielded so far, in order
    call,       \* a function of the math modules and its arguments
    result,     \* what the function returned, once it has been called
    rectCorners,\* the two corners handed to Rect2::new
    rectIter,   \* the Rect2Iter, once into_iter has run
    rectSeen,   \* the positions Rect2Iter::next has yielded, in order
    rectLast,   \* what the last Rect2Iter::next returned: "some" or "none"
    game,       \* MyGame: framebuffer, depth buffer, scale, should_close, resize
    window,     \* WindowState: its size and the cells of its surface
    gamePc,     \* where the event loop is: between events, or inside update
    frame,      \* the frame being drawn: its fragments so far and the last step
    itArgs,     \* the arguments an iterator is constructed from
    itObj,      \* the iterator: Option<RectI2Iter>, <Rasterizer>, <Rect> or <Line>
    itSeen,     \* the items its next has yielded, in order
    itLast,     \* what its last next returned: "some" or "none"
    app,        \* App: its Option<WindowState>, and the events its game holds
    appLast     \* the last window event and the calls App made to its game for it

bufVars == <<buffer, bufLast, panicked>>
matVars == <<matChain, matAcc, matLast, vecV, vecOut>>
triVars == <<triInput, triStage, triangle, triIter, triLast, fragments>>
callVars == <<call, result>>
rectVars == <<rectCorners, rectIter, rectSeen, rectLast>>
gameVars == <<game, window, gamePc, frame>>
iterVars == <<itArgs, itObj, itSeen, itLast>>
appVars == <<app, appLast>>

vars == <<unit, bufVars, matVars, triVars, callVars, rectVars, gameVars, iterVars, appVars>>

\* the variables of the other units
exceptBuf == <<matVars, triVars, callVars, rectVars, gameVars, iterVars, appVars>>
exceptMat == <<bufVars, triVars, callVars, rectVars, gameVars, iterVars, appVars>>
exceptTri == <<bufVars, matVars, callVars, rectVars, gameVars, iterVars, appVars>>
exceptCall == <<bufVars, matVars, triVars, rectVars, gameVars, iterVars, appVars>>
exceptRect == <<bufVars, matVars, triVars, callVars, gameVars, iterVars, appVars>>
exceptGame == <<bufVars, matVars, triVars, callVars, rectVars, iterVars, appVars>>
exceptIter == <<bufVars, matVars, triVars, callVars, rectVars, gameVars, appVars>>
exceptApp == <<bufVars, matVars, triVars, callVars, rectVars, gameVars, iterVars>>

\* no function called, nothing returned
NoCall == [fn |-> "none", args |-> <<>>]
NoResult == [done |-> FALSE]

\* the function calls at rest while another unit runs
CallIdle ==
    /\ call = NoCall
    /\ result = NoResult

\* no Rect2 in use
RectIdle ==
    /\ rectCorners = <<>>
    /\ rectIter = [none |-> TRUE]
    /\ rectSeen = <<>>
    /\ rectLast = "start"

\* no game running
GameIdle ==
    /\ game = [none |-> TRUE]
    /\ window = [none |-> TRUE]
    /\ gamePc = "idle"
    /\ frame = [none |-> TRUE]

\* no iterator of the later units in use
IterIdle ==
    /\ itArgs = <<>>
    /\ itObj = [none |-> TRUE]
    /\ itSeen = <<>>
    /\ itLast = "start"

\* no App running
AppIdle ==
    /\ app = [none |-> TRUE]
    /\ appLast = [none |-> TRUE]

\* the iterators and the App at rest
LaterIdle == IterIdle /\ AppIdle

\* the units declared after the first three, at rest
RestIdle == CallIdle /\ RectIdle /\ GameIdle /\ LaterIdle

(***************************************************************************)
(* Bounds of the model.                                                    *)
(***************************************************************************)
\* largest buffer width / height requested from Buffer::new
MaxDim == 2

\* longest chain of matrices multiplied together
MaxChain == 3

\* largest component of a vector to transform
MaxComp == 1

\* largest x / y of a screen-space vertex with w = 1
MaxCoord == 3

\* largest x / y of a clip-space vertex whose w varies
MaxClip == 2

\* the integer vertices of RasterTriangle lie in 0..MaxPixel
MaxPixel == 2

\* the corners of a Rect2 lie in -1..MaxCorner
MaxCorner == 2

\* window widths and heights, and fragment coordinates, lie in 0..MaxWindow
MaxWindow == 3

\* fragments composited in one frame
MaxFragments == 2

\* integer vertex coordinates up to ExactCoord keep every edge value below 2^24
ExactCoord == 1024

\* most events the recording game holds between two updates
MaxPending == 2

\* the vertices of a cropped RasterTriangle lie in -1..MaxRaster, the crop
\* area has width and height in 2..MaxRaster
MaxRaster == 3

\* the cell values: two distinguishable values of T
Values == {0, 100}

\* Vector2<i32>
Vec2(x, y) == [x |-> x, y |-> y]

\* sizes asked of Buffer::new, non-positive ones included
Sizes == {Vec2(x, y) : x \in -1..MaxDim, y \in -1..MaxDim}

\* positions handed to set_pixel / get_pixel: one cell beyond every side
Positions == {Vec2(x, y) : x \in -1..(MaxDim + 1), y \in -1..(MaxDim + 1)}

(***************************************************************************)
(* Buffer<T>  (src/src/buffers.rs)                                         *)
(***************************************************************************)
\* Option::None for Option<Buffer<T>>
NoBuffer == [some |-> FALSE, data |-> <<>>, size |-> Vec2(0, 0)]

\* mutant of BufferNew: rejects only negative sizes
BufferNewZeroOk(size, init) ==
    IF size.x < 0 \/ size.y < 0
    THEN NoBuffer
    ELSE [some |-> TRUE, data |-> [i \in 1..(size.x * size.y) |-> init], size |-> size]

\* Buffer::new
BufferNew(size, init) ==
    IF size.x <= 0 \/ size.y <= 0
    THEN NoBuffer
    ELSE [some |-> TRUE, data |-> [i \in 1..(size.x * size.y) |-> init], size |-> size]

\* mutant of BufIndex: the row stride is the height
BufIndexByHeight(b, position) == position.x + position.y * b.size.y

\* the linear index of set_pixel / get_pixel, before the cast to usize
BufIndex(b, position) == position.x + position.y * b.size.x

\* Vec's bounds check on the index cast to usize: a negative i32 becomes a huge usize
IndexPanics(b, position) ==
    BufIndex(b, position) < 0 \/ BufIndex(b, position) >= Len(b.data)

\* the buffer after set_pixel (no panic)
SetPixelData(b, position, value) ==
    [b EXCEPT !.data[BufIndex(b, position) + 1] = value]

\* the value get_pixel returns (no panic)
GetPixelValue(b, position) == b.data[BufIndex(b, position) + 1]

\* mutant of ClearData: fills one row only
ClearFirstRow(b, value) ==
    [b EXCEPT !.data = [i \in 1..Len(b.data) |-> IF i <= b.size.x THEN value ELSE b.data[i]]]

\* Buffer::clear: data.fill(value)
ClearData(b, value) ==
    [b EXCEPT !.data = [i \in 1..Len(b.data) |-> value]]

\* Buffer::width, Buffer::height
Width(b) == b.size.x
Height(b) == b.size.y

\* A position inside the grid
InRange(b, position) ==
    /\ 0 <= position.x /\ position.x < Width(b)
    /\ 0 <= position.y /\ position.y < Height(b)

InRangePositions(b) == {p \in Positions : InRange(b, p)}

BufCall(op, position, value, ret, pre) ==
    [op |-> op, pos |-> position, val |-> value, ret |-> ret, pre |-> pre]

\* Buffer::new(size, init): the constructor, also used to replace a buffer wholesale
New(size, init) ==
    /\ unit = "buffer"
    /\ UNCHANGED <<unit, exceptBuf>>
    /\ ~panicked
    /\ buffer' = BufferNew(size, init)
    /\ bufLast' = BufCall("new", size, init, 0, buffer)
    /\ UNCHANGED panicked

\* Buffer::set_pixel(position, value)
SetPixel(position, value) ==
    /\ unit = "buffer"
    /\ UNCHANGED <<unit, exceptBuf>>
    /\ ~panicked
    /\ buffer.some
    /\ bufLast' = BufCall("set_pixel", position, value, 0, buffer)
    /\ IF IndexPanics(buffer, position)
       THEN panicked' = TRUE /\ UNCHANGED buffer
       ELSE buffer' = SetPixelData(buffer, position, value) /\ UNCHANGED panicked

\* Buffer::get_pixel(position)
GetPixel(position) ==
    /\ unit = "buffer"
    /\ UNCHANGED <<unit, exceptBuf>>
    /\ ~panicked
    /\ buffer.some
    /\ UNCHANGED buffer
    /\ IF IndexPanics(buffer, position)
       THEN /\ panicked' = TRUE
            /\ bufLast' = BufCall("get_pixel", position, 0, 0, buffer)
       ELSE /\ bufLast' = BufCall("get_pixel", position, 0, GetPixelValue(buffer, position), buffer)
            /\ UNCHANGED panicked

\* Buffer::clear(value)
Clear(value) ==
    /\ unit = "buffer"
    /\ UNCHANGED <<unit, exceptBuf>>
    /\ ~panicked
    /\ buffer.some
    /\ buffer' = ClearData(buffer, value)
    /\ bufLast' = BufCall("clear", Vec2(0, 0), value, 0, buffer)
    /\ UNCHANGED panicked

\* the Buffer unit at rest while another unit runs
BufIdle ==
    /\ buffer = NoBuffer
    /\ bufLast = BufCall("none", Vec2(0, 0), 0, 0, NoBuffer)
    /\ panicked = FALSE

(***************************************************************************)
(* Claims about Buffer<T>, checked under SpecBuf.                          *)
(***************************************************************************)
\* a position with a negative coordinate, or at or beyond width or height
OutOfRange(b, position) == ~InRange(b, position)

\* C1: set_pixel and get_pixel take the panic path for every position whose x is
\* at or beyond width, whose y is at or beyond height, or that has a negative
\* coordinate: such a call never reads or writes a cell.
C1_OutOfRangePanics ==
    (/\ bufLast.op \in {"set_pixel", "get_pixel"}
     /\ OutOfRange(bufLast.pre, bufLast.pos))
        => (panicked /\ buffer = bufLast.pre)

\* C2: Buffer::new returns None exactly for a non-positive width or height;
\* otherwise the buffer has the requested width and height and every in-range
\* cell reads back init.
C2_NewContract ==
    bufLast.op = "new" =>
        /\ ~buffer.some <=> (bufLast.pos.x <= 0 \/ bufLast.pos.y <= 0)
        /\ buffer.some =>
              /\ Width(buffer) = bufLast.pos.x
              /\ Height(buffer) = bufLast.pos.y
              /\ \A x \in 0..(bufLast.pos.x - 1), y \in 0..(bufLast.pos.y - 1) :
                    /\ ~IndexPanics(buffer, Vec2(x, y))
                    /\ GetPixelValue(buffer, Vec2(x, y)) = bufLast.val

\* C2 witness: a non-square buffer was constructed
C2_Witness ==
    /\ bufLast.op = "new"
    /\ buffer.some
    /\ Width(buffer) # Height(buffer)

\* C3: after set_pixel(p, v) with p in range, get_pixel(p) returns v and
\* get_pixel(q) is unchanged for every other in-range position q.
C3_BufferIsMap ==
    (bufLast.op = "set_pixel" /\ InRange(bufLast.pre, bufLast.pos)) =>
        /\ ~panicked
        /\ ~IndexPanics(buffer, bufLast.pos)
        /\ GetPixelValue(buffer, bufLast.pos) = bufLast.val
        /\ \A q \in InRangePositions(buffer) :
              q # bufLast.pos =>
                  /\ ~IndexPanics(buffer, q)
                  /\ GetPixelValue(buffer, q) = GetPixelValue(bufLast.pre, q)

\* C3 witness: an in-range set_pixel changed a cell of a buffer of two rows and
\* two columns, another cell keeping a different value
C3_Witness ==
    /\ bufLast.op = "set_pixel"
    /\ InRange(bufLast.pre, bufLast.pos)
    /\ Width(buffer) > 1 /\ Height(buffer) > 1
    /\ bufLast.pos.y > 0
    /\ GetPixelValue(bufLast.pre, bufLast.pos) # bufLast.val
    /\ \E q \in InRangePositions(buffer) : GetPixelValue(buffer, q) # bufLast.val

\* C4: clear(value) leaves every in-range cell equal to value, whatever
\* set_pixel calls preceded it, and leaves width and height unchanged.
C4_ClearResetsAll ==
    bufLast.op = "clear" =>
        /\ ~panicked
        /\ Width(buffer) = Width(bufLast.pre)
        /\ Height(buffer) = Height(bufLast.pre)
        /\ \A q \in InRangePositions(buffer) :
              /\ ~IndexPanics(buffer, q)
              /\ GetPixelValue(buffer, q) = bufLast.val

\* C4 witness: clear ran on a buffer of several rows holding both values
C4_Witness ==
    /\ bufLast.op = "clear"
    /\ Height(buffer) > 1
    /\ \E q1, q2 \in InRangePositions(bufLast.pre) :
          /\ GetPixelValue(bufLast.pre, q1) # GetPixelValue(bufLast.pre, q2)
          /\ q2.y > 0
          /\ GetPixelValue(bufLast.pre, q2) # bufLast.val

(***************************************************************************)
(* Vector4 / Matrix4  (src/src/math/matrices.rs)                           *)
(***************************************************************************)
\* Vector4::new
Vec4(x, y, z, w) == [x |-> x, y |-> y, z |-> z, w |-> w]

\* Matrix4::new: four rows
Mat4(x, y, z, w) == [x |-> x, y |-> y, z |-> z, w |-> w]

\* impl Mul<Vector4> for Vector4: the dot product
Dot4(a, b) == a.x * b.x + a.y * b.y + a.z * b.z + a.w * b.w

\* impl Mul<Matrix4> for Matrix4: entry (i, j) is self's row i times rhs's ROW j
MatMul(a, b) ==
    Mat4(Vec4(Dot4(a.x, b.x), Dot4(a.x, b.y), Dot4(a.x, b.z), Dot4(a.x, b.w)),
         Vec4(Dot4(a.y, b.x), Dot4(a.y, b.y), Dot4(a.y, b.z), Dot4(a.y, b.w)),
         Vec4(Dot4(a.z, b.x), Dot4(a.z, b.y), Dot4(a.z, b.z), Dot4(a.z, b.w)),
         Vec4(Dot4(a.w, b.x), Dot4(a.w, b.y), Dot4(a.w, b.z), Dot4(a.w, b.w)))

\* impl Mul<Vector4> for Matrix4: each row times the vector
MatVec(m, v) == Vec4(Dot4(m.x, v), Dot4(m.y, v), Dot4(m.z, v), Dot4(m.w, v))

\* Matrix4::identity
Identity ==
    Mat4(Vec4(1, 0, 0, 0), Vec4(0, 1, 0, 0), Vec4(0, 0, 1, 0), Vec4(0, 0, 0, 1))

\* the matrix of the test check_matrix_transform
TestDiagonal ==
    Mat4(Vec4(1, 0, 0, 0), Vec4(0, 2, 0, 0), Vec4(0, 0, 3, 0), Vec4(0, 0, 0, 4))

\* Matrix4::projection(1, pi/2, 1, 2): a = 1, f = 1, q = 2
ProjectionSample ==
    Mat4(Vec4(1, 0, 0, 0), Vec4(0, 1, 0, 0), Vec4(0, 0, 2, -2), Vec4(0, 0, 1, 0))

\* Matrix4::rotation_x of a quarter turn: cos = 0, sin = 1
RotationXQuarter ==
    Mat4(Vec4(1, 0, 0, 0), Vec4(0, 0, 1, 0), Vec4(0, -1, 0, 0), Vec4(0, 0, 0, 1))

\* the view matrix of the first example: identity with z.w = -3
LookSample ==
    Mat4(Vec4(1, 0, 0, 0), Vec4(0, 1, 0, 0), Vec4(0, 0, 1, -3), Vec4(0, 0, 0, 1))

\* the matrices the products are tried on
Matrices == {Identity, TestDiagonal, ProjectionSample, RotationXQuarter, LookSample}

\* the vectors transformed
Vectors == {Vec4(x, y, z, w) : x \in 0..MaxComp, y \in 0..MaxComp,
                               z \in 0..MaxComp, w \in 0..MaxComp}

\* applying each transform of a chain successively, the last matrix first:
\* chain[1] * (chain[2] * (... * v))
RECURSIVE Successively(_, _)
Successively(chain, v) ==
    IF chain = <<>> THEN v
    ELSE MatVec(Head(chain), Successively(Tail(chain), v))

MatCall(op, lhs, rhs, res) == [op |-> op, lhs |-> lhs, rhs |-> rhs, res |-> res]

NoTransform == [done |-> FALSE, composed |-> Vec4(0, 0, 0, 0), successive |-> Vec4(0, 0, 0, 0)]

\* matAcc * rhs
MulMatrix(rhs) ==
    /\ unit = "matrix"
    /\ UNCHANGED <<unit, exceptMat>>
    /\ Len(matChain) < MaxChain
    /\ matAcc' = MatMul(matAcc, rhs)
    /\ matChain' = Append(matChain, rhs)
    /\ matLast' = MatCall("mul", matAcc, rhs, MatMul(matAcc, rhs))
    /\ vecOut' = NoTransform
    /\ UNCHANGED vecV

\* matAcc * vecV, and the same transforms applied one after another
Transform ==
    /\ unit = "matrix"
    /\ UNCHANGED <<unit, exceptMat>>
    /\ ~vecOut.done
    /\ vecOut' = [done |-> TRUE,
                  composed |-> MatVec(matAcc, vecV),
                  successive |-> Successively(matChain, vecV)]
    /\ UNCHANGED <<matChain, matAcc, matLast, vecV>>

\* the Matrix4 unit at rest while another unit runs
MatIdle ==
    /\ matChain = <<>>
    /\ matAcc = Identity
    /\ matLast = MatCall("none", Identity, Identity, Identity)
    /\ vecV = Vec4(0, 0, 0, 0)
    /\ vecOut = NoTransform

(***************************************************************************)
(* Claims about Matrix4, checked under SpecMat.                            *)
(***************************************************************************)
\* C9: applying a product of matrices to a vector equals applying each
\* transform successively: (A*B)*v = A*(B*v), ((A*B)*C)*v = A*(B*(C*v)).
C9_ProductComposes ==
    vecOut.done => vecOut.composed = vecOut.successive

\* C10: Matrix4::identity() is a two-sided identity: identity*v = v,
\* identity*A = A and A*identity = A.
C10_IdentityTwoSided ==
    /\ (vecOut.done /\ matChain = <<Identity>>) => vecOut.composed = vecV
    /\ (matLast.op = "mul" /\ matLast.lhs = Identity) => matLast.res = matLast.rhs
    /\ (matLast.op = "mul" /\ matLast.rhs = Identity) => matLast.res = matLast.lhs

(***************************************************************************)
(* f32 arithmetic.  A finite value is the rational n/d it denotes, in      *)
(* lowest terms with d > 0; every operation rounds its exact result to a    *)
(* 24-bit significand, ties to even, as IEEE 754 binary32 does.  The        *)
(* results of a division by zero are kept: d = 0 with n = 1 (+inf), n = -1  *)
(* (-inf) or n = 0 (NaN).  The sign of a zero, subnormals and overflow to   *)
(* infinity are not modelled: the magnitudes of the model stay between      *)
(* 2^-7 and 2^30.                                                           *)
(***************************************************************************)
Abs(i) == IF i < 0 THEN -i ELSE i

RECURSIVE Gcd(_, _)
Gcd(a, b) == IF b = 0 THEN a ELSE Gcd(b, a % b)

\* n/d in lowest terms, g being the greatest common divisor of n and d > 0
Lowest(n, d, g) == [n |-> n \div g, d |-> d \div g]

\* the finite value n/d (d # 0)
Rat(n, d) ==
    IF d = 1 THEN [n |-> n, d |-> 1]
    ELSE IF d < 0 THEN Lowest(-n, -d, Gcd(Abs(n), -d))
    ELSE Lowest(n, d, Gcd(Abs(n), d))

\* an integer as f32
F(i) == [n |-> i, d |-> 1]

PosInf == [n |-> 1, d |-> 0]
NegInf == [n |-> -1, d |-> 0]
NaN == [n |-> 0, d |-> 0]

IsFinite(a) == a.d # 0
Sign(a) == IF a.n > 0 THEN 1 ELSE IF a.n < 0 THEN -1 ELSE 0

\* the width of the significand of an f32
Significand == 24

PowersOfTwo == {2^k : k \in 0..30}

\* the first Significand bits of n/d by long division: the quotient q, the
\* remainder r and the number k of binary places after the point
RECURSIVE LongDiv(_, _, _, _)
LongDiv(q, r, d, k) ==
    IF q >= 2^(Significand - 1) THEN [q |-> q, r |-> r, k |-> k]
    ELSE IF 2 * r >= d THEN LongDiv(2 * q + 1, 2 * r - d, d, k + 1)
    ELSE LongDiv(2 * q, 2 * r, d, k + 1)

\* the value s * q / 2^k with q rounded by the remainder r of the division by d:
\* up when the rest is above a half, to even when it is a half
RoundBits(s, l, d) ==
    Rat(s * (IF 2 * l.r > d \/ (2 * l.r = d /\ l.q % 2 = 1) THEN l.q + 1 ELSE l.q), 2^l.k)

\* the power of two p that brings n / (d * p) below 2^Significand
RECURSIVE ShiftFor(_, _)
ShiftFor(n, d) == IF n < 2^Significand * d THEN 1 ELSE 2 * ShiftFor(n, 2 * d)

\* n / m rounded to the nearest integer, ties to even
HalfEven(n, m) ==
    IF 2 * (n % m) > m \/ (2 * (n % m) = m /\ (n \div m) % 2 = 1)
    THEN (n \div m) + 1
    ELSE n \div m

\* a value of magnitude 2^Significand or more: a multiple of the power of two p
RoundLarge(s, n, d, p) == F(s * HalfEven(n, d * p) * p)

\* the f32 nearest to the exact value a, ties to even
Round(a) ==
    IF a.d = 1 /\ a.n < 2^Significand /\ -a.n < 2^Significand THEN a
    ELSE IF ~IsFinite(a) THEN a
    ELSE IF a.d < 2^7 /\ Abs(a.n) >= 2^Significand * a.d
    THEN RoundLarge(Sign(a), Abs(a.n), a.d, ShiftFor(Abs(a.n), a.d))
    ELSE IF a.n < 2^Significand /\ -a.n < 2^Significand /\ a.d \in PowersOfTwo THEN a
    ELSE RoundBits(Sign(a), LongDiv(Abs(a.n) \div a.d, Abs(a.n) % a.d, a.d, 0), a.d)

\* the exact sum of two finite values, g being the greatest common divisor of
\* their denominators
SumOver(a, b, g) == Rat(a.n * (b.d \div g) + b.n * (a.d \div g), (a.d \div g) * b.d)

Sum(a, b) == IF a.d = 1 /\ b.d = 1 THEN F(a.n + b.n) ELSE SumOver(a, b, Gcd(a.d, b.d))

\* -a
FNeg(a) == [n |-> -a.n, d |-> a.d]

\* a + b
FAdd(a, b) ==
    IF IsFinite(a) /\ IsFinite(b) THEN Round(Sum(a, b))
    ELSE IF a = NaN \/ b = NaN THEN NaN
    ELSE IF ~IsFinite(a) /\ ~IsFinite(b) THEN (IF a = b THEN a ELSE NaN)
    ELSE IF IsFinite(a) THEN b ELSE a

\* a - b
FSub(a, b) == FAdd(a, FNeg(b))

\* a * b
FMul(a, b) ==
    IF IsFinite(a) /\ IsFinite(b)
    THEN (IF a.d = 1 /\ b.d = 1 THEN Round(F(a.n * b.n))
          ELSE Round(Rat(a.n * b.n, a.d * b.d)))
    ELSE IF a = NaN \/ b = NaN \/ Sign(a) * Sign(b) = 0 THEN NaN
    ELSE IF Sign(a) * Sign(b) > 0 THEN PosInf ELSE NegInf

\* a / b, division by zero included
FDiv(a, b) ==
    IF IsFinite(a) /\ IsFinite(b)
    THEN (IF b.n # 0 THEN Round(Rat(a.n * b.d, a.d * b.n))
          ELSE IF a.n > 0 THEN PosInf ELSE IF a.n < 0 THEN NegInf ELSE NaN)
    ELSE IF a = NaN \/ b = NaN THEN NaN
    ELSE IF ~IsFinite(a) /\ ~IsFinite(b) THEN NaN
    ELSE IF IsFinite(a) THEN F(0)
    ELSE IF Sign(a) * Sign(b) >= 0 THEN a ELSE FNeg(a)

\* a < b and a > b: false when either is NaN
FLt(a, b) ==
    IF IsFinite(a) /\ IsFinite(b) THEN a.n * b.d < b.n * a.d
    ELSE IF a = NaN \/ b = NaN THEN FALSE
    ELSE IF IsFinite(a) THEN b = PosInf
    ELSE IF IsFinite(b) THEN a = NegInf
    ELSE a = NegInf /\ b = PosInf

FGt(a, b) == FLt(b, a)

\* f32::abs
FAbs(a) == [n |-> Abs(a.n), d |-> a.d]

\* `as i32` of a finite value: truncation toward zero
AsI32(a) == IF a.n >= 0 THEN a.n \div a.d ELSE -((-a.n) \div a.d)

(***************************************************************************)
(* Vector2 / Vector3 / Vector4 of f32  (src/src/math/vectors.rs)           *)
(***************************************************************************)
\* Vector3::new
Vec3(x, y, z) == [x |-> x, y |-> y, z |-> z]

\* impl Add / Neg / Sub for Vector2: sub is self + (-rhs)
V2Add(a, b) == Vec2(FAdd(a.x, b.x), FAdd(a.y, b.y))
V2Neg(a) == Vec2(FNeg(a.x), FNeg(a.y))
V2Sub(a, b) == V2Add(a, V2Neg(b))

\* impl Add / Neg / Sub for Vector3
V3Add(a, b) == Vec3(FAdd(a.x, b.x), FAdd(a.y, b.y), FAdd(a.z, b.z))
V3Neg(a) == Vec3(FNeg(a.x), FNeg(a.y), FNeg(a.z))
V3Sub(a, b) == V3Add(a, V3Neg(b))

\* Vector3::cross
Cross(a, b) ==
    Vec3(FSub(FMul(a.y, b.z), FMul(a.z, b.y)),
         FSub(FMul(a.z, b.x), FMul(a.x, b.z)),
         FSub(FMul(a.x, b.y), FMul(a.y, b.x)))

\* impl Mul for Vector3: the dot product
V3Dot(a, b) == FAdd(FAdd(FMul(a.x, b.x), FMul(a.y, b.y)), FMul(a.z, b.z))

\* impl Div<T> for Vector3
V3Div(a, rhs) == Vec3(FDiv(a.x, rhs), FDiv(a.y, rhs), FDiv(a.z, rhs))

\* impl From<Vector4<T>> for Vector3<T>: divide by w, by 1 when w is zero
V4ToV3(v) ==
    LET div == IF v.w = F(0) THEN F(1) ELSE v.w
    IN  Vec3(FDiv(v.x, div), FDiv(v.y, div), FDiv(v.z, div))

\* impl From<Vector3<T>> for Vector2<T>
V3ToV2(v) == Vec2(v.x, v.y)

\* impl From<Vector2<T>> for Vector3<T>
V2ToV3(v) == Vec3(v.x, v.y, F(0))

(***************************************************************************)
(* f32 Vector4 / Matrix4  (src/src/math/matrices.rs)                       *)
(***************************************************************************)
\* impl Mul<Vector4> for Vector4 on f32 components, summed left to right
FDot4(a, b) ==
    FAdd(FAdd(FAdd(FMul(a.x, b.x), FMul(a.y, b.y)), FMul(a.z, b.z)), FMul(a.w, b.w))

\* impl Mul<Vector4> for Matrix4 on f32 components: each row times the vector
FMatVec(m, v) == Vec4(FDot4(m.x, v), FDot4(m.y, v), FDot4(m.z, v), FDot4(m.w, v))

\* std::f32::consts::FRAC_PI_2 and FRAC_PI_4: pi/2 and pi/4 rounded to f32
HalfPi == [n |-> 13176795, d |-> 2^23]
QuarterPi == [n |-> 13176795, d |-> 2^24]

\* f32::tan at the one angle used: tan(QuarterPi) = 1.00000004..., which rounds to 1
Tan(x) == CASE x = QuarterPi -> F(1)

\* the rows of Matrix4::projection, given a, f and q
ProjectionRows(a, f, q, z_near) ==
    Mat4(Vec4(FMul(a, f), F(0), F(0), F(0)),
         Vec4(F(0), f, F(0), F(0)),
         Vec4(F(0), F(0), q, FMul(FNeg(z_near), q)),
         Vec4(F(0), F(0), F(1), F(0)))

\* Matrix4::projection
Projection(aspect, fov, z_near, z_far) ==
    ProjectionRows(FDiv(F(1), aspect),
                   FDiv(F(1), Tan(FDiv(fov, F(2)))),
                   FDiv(z_far, FSub(z_far, z_near)),
                   z_near)

\* impl From<Vector4> for Vector3 of matrices.rs: w is dropped
Vector3From(value) == Vec3(value.x, value.y, value.z)

(***************************************************************************)
(* VecI2 / RasterTriangle  (src/src/math/mod.rs, src/src/triangles.rs)     *)
(***************************************************************************)
\* impl Sub for VecI2: self + (-another)
I2Sub(a, b) == Vec2(a.x + (-b.x), a.y + (-b.y))

\* VecI2::cross: computed in f32
I2Cross(a, b) == FSub(FMul(F(a.x), F(b.y)), FMul(F(a.y), F(b.x)))

\* VecI2::scale: the f32 products cast back to i32 (truncated towards zero)
I2Scale(a, factor) == Vec2(AsI32(FMul(F(a.x), factor)), AsI32(FMul(F(a.y), factor)))

\* RasterTriangle::segments_from_points
SegmentsFromPoints(points) ==
    <<I2Sub(points[2], points[1]), I2Sub(points[3], points[2]), I2Sub(points[1], points[3])>>

\* the three comparisons of check_vertices, given the middle
MiddleIsLeft(vertices, segments, middle) ==
    /\ FGt(I2Cross(segments[1], I2Sub(middle, vertices[1])), F(0))
    /\ FGt(I2Cross(segments[2], I2Sub(middle, vertices[2])), F(0))
    /\ FGt(I2Cross(segments[3], I2Sub(middle, vertices[3])), F(0))

\* RasterTriangle::check_vertices
CheckVertices(vertices, segments) ==
    MiddleIsLeft(vertices, segments,
                 I2Scale(Vec2(vertices[1].x + vertices[2].x + vertices[3].x,
                              vertices[1].y + vertices[2].y + vertices[3].y),
                         FDiv(F(1), F(3))))

\* the Option<RasterTriangle> built from checked vertices
RasterChecked(vertices, segments) ==
    IF CheckVertices(vertices, segments)
    THEN [some |-> TRUE, vertices |-> vertices, segments |-> segments]
    ELSE [some |-> FALSE]

\* RasterTriangle::new
RasterTriangleNew(first, second, third) ==
    RasterChecked(<<first, second, third>>, SegmentsFromPoints(<<first, second, third>>))

(***************************************************************************)
(* RectI2 / RectI2Iter  (src/src/math/mod.rs), Rasterizer                  *)
(* (src/src/triangles.rs)                                                  *)
(***************************************************************************)
NoRectI2 == [some |-> FALSE]

\* RectI2::new: Some when end - start is positive in x and in y
RectI2New(start, end) ==
    IF I2Sub(end, start).x > 0 /\ I2Sub(end, start).y > 0
    THEN [some |-> TRUE, start |-> start, end |-> end]
    ELSE NoRectI2

\* RectI2::size
RectI2Size(rect) == I2Sub(rect.end, rect.start)

\* RectI2Iter::new
RectI2IterNew(rect) == [rect |-> rect, size |-> RectI2Size(rect), index |-> 0]

\* the position RectI2Iter::next builds from its index
RectI2Output(it) ==
    Vec2(it.rect.start.x + (it.index % it.size.x), it.rect.start.y + (it.index \div it.size.x))

\* RectI2Iter::next: the item (if any) and the iterator after the call
RectI2IterNext(it) ==
    IF it.index > it.size.x * it.size.y
    THEN [some |-> FALSE, iter |-> it]
    ELSE [some |-> TRUE, item |-> RectI2Output(it), iter |-> [it EXCEPT !.index = it.index + 1]]

\* std::cmp::min / max on i32
MinI(a, b) == IF b < a THEN b ELSE a
MaxI(a, b) == IF b > a THEN b ELSE a

\* min_max_from_three
MinMaxFromThree(first, second, third) ==
    [min |-> MinI(MinI(first, second), third), max |-> MaxI(MaxI(first, second), third)]

\* Rasterizer::get_area from the two (min, max) pairs
AreaOf(mx, my) == RectI2New(Vec2(mx.min, my.min), Vec2(mx.max, my.max))

\* Rasterizer::get_area
GetArea(t) ==
    AreaOf(MinMaxFromThree(t.vertices[1].x, t.vertices[2].x, t.vertices[3].x),
           MinMaxFromThree(t.vertices[1].y, t.vertices[2].y, t.vertices[3].y))

\* Rasterizer::calculate_starts: the f32 cross products cast to i32
CalculateStarts(t, start) ==
    <<AsI32(I2Cross(t.segments[1], I2Sub(start, t.vertices[1]))),
      AsI32(I2Cross(t.segments[2], I2Sub(start, t.vertices[2]))),
      AsI32(I2Cross(t.segments[3], I2Sub(start, t.vertices[3])))>>

\* Rasterizer::calculate_deltas
CalculateDeltas(t) ==
    <<Vec2(-t.segments[1].y, t.segments[1].x),
      Vec2(-t.segments[2].y, t.segments[2].x),
      Vec2(-t.segments[3].y, t.segments[3].x)>>

NoRasterizer == [some |-> FALSE]
NoRasterFragment == [some |-> FALSE]

\* Some(Self { iter, starts, deltas, area }) for the rectangle iterated and
\* the corner the starts are taken at
RasterizerOf(t, rect, start) ==
    IF ~rect.some THEN NoRasterizer
    ELSE [some |-> TRUE,
          iter |-> RectI2IterNew(rect),
          area |-> FAbs(I2Cross(t.segments[1], t.segments[2])),
          starts |-> CalculateStarts(t, start),
          deltas |-> CalculateDeltas(t)]

\* Rasterizer::new
RasterizerNew(t) ==
    IF ~GetArea(t).some THEN NoRasterizer
    ELSE RasterizerOf(t, GetArea(t), GetArea(t).start)

\* the corners of Rasterizer::new_with_cropping: (min_x, min_y), (max_x, max_y)
CropStart(rect) == Vec2(MaxI(rect.start.x, 0), MaxI(rect.start.y, 0))
CropEnd(rect, crop_area) == Vec2(MinI(rect.end.x, crop_area.x), MinI(rect.end.y, crop_area.y))

\* Rasterizer::new_with_cropping
RasterizerNewWithCropping(t, crop_area) ==
    IF ~GetArea(t).some THEN NoRasterizer
    ELSE RasterizerOf(t, RectI2New(CropStart(GetArea(t)), CropEnd(GetArea(t), crop_area)),
                      CropStart(GetArea(t)))

\* the edge value of index i the closure of Rasterizer::next computes at delta
RasterCof(rz, i, delta) ==
    rz.starts[i] + delta.x * rz.deltas[i].x + delta.y * rz.deltas[i].y

\* the inside test of Rasterizer::next
RasterInside(cof0, cof1, cof2) == cof0 >= 0 /\ cof1 >= 0 /\ cof2 >= 0

\* the closure of Rasterizer::next from the three edge values on
RasterWeighted(rz, position, cof0, cof1, cof2) ==
    IF RasterInside(cof0, cof1, cof2)
    THEN [some |-> TRUE,
          position |-> position,
          attributes |-> <<FDiv(F(cof0), rz.area), FDiv(F(cof1), rz.area), FDiv(F(cof2), rz.area)>>]
    ELSE NoRasterFragment

\* the closure of Rasterizer::next from delta = position - start on
RasterInterpolated(rz, position, delta) ==
    RasterWeighted(rz, position, RasterCof(rz, 2, delta), RasterCof(rz, 3, delta),
                   RasterCof(rz, 1, delta))

\* the closure of Rasterizer::next, start being self.iter.rect().start()
RasterClosure(rz, position) ==
    RasterInterpolated(rz, position, I2Sub(position, rz.iter.rect.start))

\* the values starts.0, starts.1, starts.2 lead to in the closure of
\* Rasterizer::next at delta = position - start
RasterCoefficients(rz, delta) ==
    <<RasterCof(rz, 1, delta), RasterCof(rz, 2, delta), RasterCof(rz, 3, delta)>>

\* Rasterizer::next: iter.find_map(closure)
RECURSIVE RasterFindMap(_)
RasterFindMapFound(after, f) ==
    IF f.some THEN [frag |-> f, rz |-> after] ELSE RasterFindMap(after)

RasterFindMapItem(rz, r) ==
    IF ~r.some THEN [frag |-> NoRasterFragment, rz |-> [rz EXCEPT !.iter = r.iter]]
    ELSE RasterFindMapFound([rz EXCEPT !.iter = r.iter], RasterClosure(rz, r.item))

RasterFindMap(rz) == RasterFindMapItem(rz, RectI2IterNext(rz.iter))

(***************************************************************************)
(* Rect2, Rect2Iter, Triangle, TriangleIter  (src/src/raster.rs)           *)
(***************************************************************************)
NoRect == [some |-> FALSE]

\* the test of Rect2::new on diff = end - start
TooSmall(diff) == FLt(FAbs(diff.x), F(1)) \/ FLt(FAbs(diff.y), F(1))

\* Rect2::new
Rect2New(start, end) ==
    IF TooSmall(V2Sub(end, start))
    THEN NoRect
    ELSE [some |-> TRUE, start |-> start, end |-> end]

\* Rect2Iter::new
Rect2IterNew(rect) ==
    LET start == Vec2(AsI32(rect.start.x), AsI32(rect.start.y))
        end == Vec2(AsI32(rect.end.x), AsI32(rect.end.y))
        start_x == IF start.x < end.x THEN start.x ELSE end.x
        end_x == IF start.x < end.x THEN end.x ELSE start.x
        start_y == IF start.y < end.y THEN start.y ELSE end.y
        end_y == IF start.y < end.y THEN end.y ELSE start.y
    IN  [start |-> Vec2(start_x, start_y),
         end |-> Vec2(end_x, end_y),
         current |-> Vec2(start_x, start_y)]

\* mutant of Rect2IterNext: the row ends one column early
Rect2IterNextExclusive(it) ==
    IF it.current.y > it.end.y
    THEN [some |-> FALSE, iter |-> it]
    ELSE [some |-> TRUE,
          item |-> it.current,
          iter |-> IF it.current.x + 1 >= it.end.x
                   THEN [it EXCEPT !.current = Vec2(it.start.x, it.current.y + 1)]
                   ELSE [it EXCEPT !.current = Vec2(it.current.x + 1, it.current.y)]]

\* Rect2Iter::next: the item (if any) and the iterator after the call
Rect2IterNext(it) ==
    IF it.current.y > it.end.y
    THEN [some |-> FALSE, iter |-> it]
    ELSE [some |-> TRUE,
          item |-> it.current,
          iter |-> IF it.current.x + 1 > it.end.x
                   THEN [it EXCEPT !.current = Vec2(it.start.x, it.current.y + 1)]
                   ELSE [it EXCEPT !.current = Vec2(it.current.x + 1, it.current.y)]]

\* mutant of Segments: the third edge runs from v0 to v2
SegmentsThirdReversed(vertices) ==
    <<V3Sub(vertices[2], vertices[1]),
      V3Sub(vertices[3], vertices[2]),
      V3Sub(vertices[3], vertices[1])>>

\* Triangle::segments
Segments(vertices) ==
    <<V3Sub(vertices[2], vertices[1]),
      V3Sub(vertices[3], vertices[2]),
      V3Sub(vertices[1], vertices[3])>>

\* mutant of Check: rejects a zero cross product too
CheckStrict(vertices, segments) ==
    LET middle == V3Div(V3Add(V3Add(vertices[1], vertices[2]), vertices[3]), F(3))
        deltas == [i \in 1..3 |-> V3Sub(middle, vertices[i])]
    IN  \A i \in 1..3 : FGt(Cross(segments[i], deltas[i]).z, F(0))

\* Triangle::check
Check(vertices, segments) ==
    LET middle == V3Div(V3Add(V3Add(vertices[1], vertices[2]), vertices[3]), F(3))
        deltas == [i \in 1..3 |-> V3Sub(middle, vertices[i])]
    IN  \A i \in 1..3 : ~FLt(Cross(segments[i], deltas[i]).z, F(0))

\* get_max_min of Triangle::get_rect: (max, min) of three coordinates
GetMaxMin(coords) ==
    IF FGt(coords[1], coords[2]) /\ FGt(coords[1], coords[3])
    THEN (IF FGt(coords[2], coords[3])
          THEN [max |-> coords[1], min |-> coords[3]]
          ELSE [max |-> coords[1], min |-> coords[2]])
    ELSE IF FGt(coords[2], coords[1]) /\ FGt(coords[2], coords[3])
    THEN (IF FGt(coords[1], coords[3])
          THEN [max |-> coords[2], min |-> coords[3]]
          ELSE [max |-> coords[2], min |-> coords[1]])
    ELSE (IF FGt(coords[1], coords[2])
          THEN [max |-> coords[3], min |-> coords[2]]
          ELSE [max |-> coords[3], min |-> coords[1]])

\* Rect2::new(start, end) of Triangle::get_rect, from the two (max, min) pairs
RectOf(mx, my) == Rect2New(Vec2(mx.min, my.min), Vec2(mx.max, my.max))

\* Triangle::get_rect
GetRect(vertices) ==
    RectOf(GetMaxMin(<<vertices[1].x, vertices[2].x, vertices[3].x>>),
           GetMaxMin(<<vertices[1].y, vertices[2].y, vertices[3].y>>))

NoTriangle == [some |-> FALSE]

\* the end of Triangle::new: `get_rect(..)?`, then the check
Checked(ws, vertices, segments, rect) ==
    IF ~rect.some THEN NoTriangle
    ELSE IF Check(vertices, segments)
    THEN [some |-> TRUE, vertices |-> vertices, segments |-> segments,
          ws |-> ws, rect |-> rect]
    ELSE NoTriangle

\* Triangle::new after the conversion of the vertices
Converted(ws, vertices) == Checked(ws, vertices, Segments(vertices), GetRect(vertices))

\* Triangle::new
TriangleNew(vertices4) ==
    Converted(Vec3(vertices4[1].w, vertices4[2].w, vertices4[3].w),
              <<V4ToV3(vertices4[1]), V4ToV3(vertices4[2]), V4ToV3(vertices4[3])>>)

\* LinearInterpolator::new, LinearInterpolator::calc
LinearInterpolator(start, dx, dy) == [start |-> start, dx |-> dx, dy |-> dy]
Calc(li, dx, dy) == FAdd(FAdd(li.start, FMul(li.dx, dx)), FMul(li.dy, dy))

\* TriangleIter::new
TriangleIterNew(t) ==
    LET start == t.rect.start
        vs == [i \in 1..3 |-> V2Sub(start, V3ToV2(t.vertices[i]))]
    IN  [rect_iter |-> Rect2IterNew(t.rect),
         crosses |-> [i \in 1..3 |->
                        LinearInterpolator(Cross(t.segments[i], V2ToV3(vs[i])).z,
                                           FNeg(t.segments[i].y),
                                           t.segments[i].x)],
         start |-> start,
         triangle |-> t,
         zs |-> Vec3(t.vertices[1].z, t.vertices[2].z, t.vertices[3].z)]

\* mutant of Inside: closed half-planes
InsideClosed(cof0, cof1, cof2) ==
    ~FLt(cof0, F(0)) /\ ~FLt(cof1, F(0)) /\ ~FLt(cof2, F(0))

\* the inside test of TriangleIter::next
Inside(cof0, cof1, cof2) == FGt(cof0, F(0)) /\ FGt(cof1, F(0)) /\ FGt(cof2, F(0))

NoFragment == [some |-> FALSE]

\* coefs / sum, sum being coefs.x + coefs.y + coefs.z
Normalised(coefs) == V3Div(coefs, FAdd(FAdd(coefs.x, coefs.y), coefs.z))

\* Some(Fragment { position: (x, y, coefs * zs), coefs })
FragmentOf(position, coefs, zs) ==
    [some |-> TRUE,
     position |-> Vec3(position.x, position.y, V3Dot(coefs, zs)),
     coefs |-> coefs]

\* the closure of TriangleIter::next from the three edge values on
Weighted(it, position, cof0, cof1, cof2) ==
    IF Inside(cof0, cof1, cof2)
    THEN FragmentOf(position,
                    Normalised(Vec3(FDiv(cof0, it.triangle.ws.x),
                                    FDiv(cof1, it.triangle.ws.y),
                                    FDiv(cof2, it.triangle.ws.z))),
                    it.zs)
    ELSE NoFragment

\* the closure of TriangleIter::next from delta = position - start on
Interpolated(it, position, delta) ==
    Weighted(it, position,
             Calc(it.crosses[2], delta.x, delta.y),
             Calc(it.crosses[3], delta.x, delta.y),
             Calc(it.crosses[1], delta.x, delta.y))

\* the closure of TriangleIter::next on the f32 position
Closure(it, position) == Interpolated(it, position, V2Sub(position, it.start))

\* the closure of TriangleIter::next, applied to one position of the rectangle
FragmentAt(it, pos) == Closure(it, Vec2(F(pos.x), F(pos.y)))

\* mutant of Coefficients: the x and y offsets are exchanged
CoefficientsSwapped(it, delta) ==
    <<Calc(it.crosses[1], delta.y, delta.x),
      Calc(it.crosses[2], delta.y, delta.x),
      Calc(it.crosses[3], delta.y, delta.x)>>

\* the values crosses[0], crosses[1], crosses[2] take in the closure of
\* TriangleIter::next at delta = position - start
Coefficients(it, delta) ==
    <<Calc(it.crosses[1], delta.x, delta.y),
      Calc(it.crosses[2], delta.x, delta.y),
      Calc(it.crosses[3], delta.x, delta.y)>>

\* mutant of FindMapFound: the closure's first answer ends the call, as `map`
\* would instead of `find_map`
FindMapFirstOnly(after, f) == [frag |-> f, iter |-> after]

\* TriangleIter::next: rect_iter.find_map(closure): r is what rect_iter.next()
\* returned, f what the closure returned, after the iterator once advanced
RECURSIVE FindMap(_)
FindMapFound(after, f) ==
    IF f.some THEN [frag |-> f, iter |-> after] ELSE FindMap(after)

FindMapItem(it, r) ==
    IF ~r.some THEN [frag |-> NoFragment, iter |-> [it EXCEPT !.rect_iter = r.iter]]
    ELSE FindMapFound([it EXCEPT !.rect_iter = r.iter], FragmentAt(it, r.item))

FindMap(it) == FindMapItem(it, Rect2IterNext(it.rect_iter))

\* the fragments of a whole scan: `for frag in triangle`
RECURSIVE Drain(_)
DrainFrom(r) == IF r.frag.some THEN <<r.frag>> \o Drain(r.iter) ELSE <<>>

Drain(it) == DrainFrom(FindMap(it))

\* a screen-space vertex as the tests build it: Vector3::new(x, y, 0.0).into()
Vertex(x, y) == [x |-> F(x), y |-> F(y), z |-> F(0), w |-> F(1)]

\* a clip-space vertex
ClipVertex(x, y, w) == [x |-> F(x), y |-> F(y), z |-> F(0), w |-> F(w)]

GridVertices == {Vertex(x, y) : x \in 0..MaxCoord, y \in 0..MaxCoord}

\* clip-space w: behind the camera, on the camera plane, in front of it
WValues == {-1, 0, 1, 2}

ClipVertices == {ClipVertex(x, y, w) : x \in 0..MaxClip, y \in 0..MaxClip, w \in WValues}

NoIter == [none |-> TRUE]

\* Triangle::new(vertices)
Construct ==
    /\ unit = "triangle"
    /\ UNCHANGED <<unit, exceptTri>>
    /\ triStage = "input"
    /\ triangle' = TriangleNew(triInput)
    /\ triStage' = "new"
    /\ UNCHANGED <<triInput, triIter, triLast, fragments>>

\* Triangle::into_iter
IntoIter ==
    /\ unit = "triangle"
    /\ UNCHANGED <<unit, exceptTri>>
    /\ triStage = "new"
    /\ triangle.some
    /\ triIter' = TriangleIterNew(triangle)
    /\ triStage' = "iter"
    /\ UNCHANGED <<triInput, triangle, triLast, fragments>>

\* the caller's record of what TriangleIter::next returned
Yielded(r) ==
    /\ triIter' = r.iter
    /\ triLast' = IF r.frag.some THEN "some" ELSE "none"
    /\ fragments' = IF r.frag.some THEN Append(fragments, r.frag) ELSE fragments

\* TriangleIter::next
IterNext ==
    /\ unit = "triangle"
    /\ UNCHANGED <<unit, exceptTri>>
    /\ triStage = "iter"
    /\ Yielded(FindMap(triIter))
    /\ UNCHANGED <<triInput, triStage, triangle>>

\* the triangle unit at rest while another unit runs
TriIdle ==
    /\ triInput = <<>>
    /\ triStage = "idle"
    /\ triangle = NoTriangle
    /\ triIter = NoIter
    /\ triLast = "start"
    /\ fragments = <<>>

TriStart(vertexSet) ==
    /\ unit = "triangle"
    /\ BufIdle
    /\ MatIdle
    /\ RestIdle
    /\ triInput \in vertexSet \X vertexSet \X vertexSet
    /\ triStage = "input"
    /\ triangle = NoTriangle
    /\ triIter = NoIter
    /\ triLast = "start"
    /\ fragments = <<>>

\* screen-space triangles on the pixel grid, w = 1
TriInit == TriStart(GridVertices)

\* clip-space triangles with any w
TriWInit == TriStart(ClipVertices)

TriNext ==
    \/ Construct
    \/ IntoIter
    \/ IterNext

(***************************************************************************)
(* Claims about Triangle and TriangleIter, checked under SpecTri (C5, C6,  *)
(* C8) and SpecTriW (C7).                                                  *)
(***************************************************************************)
\* the screen-space vertices Triangle::new works on
ScreenVertices == [i \in 1..3 |-> V4ToV3(triInput[i])]

\* the signed orientation cross(v1 - v0, v2 - v0).z of three vertices
OrientationOf(v) == Cross(V3Sub(v[2], v[1]), V3Sub(v[3], v[1])).z
Orientation == OrientationOf(ScreenVertices)

Least(a, b) == IF FLt(b, a) THEN b ELSE a
Greatest(a, b) == IF FGt(b, a) THEN b ELSE a
Min3(a, b, c) == Least(Least(a, b), c)
Max3(a, b, c) == Greatest(Greatest(a, b), c)

\* the bounding box of three vertices spans at least one pixel in both axes
SpansPixel(v) ==
    /\ ~FLt(FSub(Max3(v[1].x, v[2].x, v[3].x), Min3(v[1].x, v[2].x, v[3].x)), F(1))
    /\ ~FLt(FSub(Max3(v[1].y, v[2].y, v[3].y), Min3(v[1].y, v[2].y, v[3].y)), F(1))

BoxSpansPixel == SpansPixel(ScreenVertices)

\* cross(edge_i, centroid - v_i).z >= 0 for all three edges, in f32
CentroidTestOf(v) ==
    LET centroid == V3Div(V3Add(V3Add(v[1], v[2]), v[3]), F(3))
        edge == <<V3Sub(v[2], v[1]), V3Sub(v[3], v[2]), V3Sub(v[1], v[3])>>
    IN  \A i \in 1..3 : ~FLt(Cross(edge[i], V3Sub(centroid, v[i])).z, F(0))

CentroidTest == CentroidTestOf(ScreenVertices)

Tolerance == [n |-> 1, d |-> 2^20]

\* C7: every fragment yielded for an accepted triangle, whatever the w of its
\* vertices, has weights that sum to 1 (within the floating tolerance) and are
\* each strictly greater than 0.
C7_WeightsPositiveSumOne ==
    \A i \in 1..Len(fragments) :
        LET c == fragments[i].coefs
            sum == FAdd(FAdd(c.x, c.y), c.z)
        IN  /\ FGt(c.x, F(0)) /\ FGt(c.y, F(0)) /\ FGt(c.z, F(0))
            /\ IsFinite(sum)
            /\ ~FGt(FAbs(Sum(sum, F(-1))), Tolerance)

\* the pixel positions of a sequence of fragments
PositionsOf(frags) ==
    {Vec2(frags[i].position.x.n, frags[i].position.y.n) : i \in 1..Len(frags)}

\* the value of edge i of triangle t at pixel p, computed directly
EdgeValue(t, i, p) ==
    Cross(t.segments[i], V3Sub(Vec3(F(p.x), F(p.y), F(0)), t.vertices[i])).z

OnAnEdge(t, p) == \E i \in 1..3 : EdgeValue(t, i, p) = F(0)

Pixels == {Vec2(x, y) : x \in 0..MaxCoord, y \in 0..MaxCoord}

\* a triangle and the pixel positions of the fragments of its whole scan
ScanOfTriangle(tr) ==
    [triangle |-> tr,
     yielded |-> IF tr.some THEN PositionsOf(Drain(TriangleIterNew(tr))) ELSE {}]

\* Triangle::new and the whole scan `for frag in triangle` of a triple
ScanOfTriple(t) == ScanOfTriangle(TriangleNew(t))

\* the triangle (if accepted) that shares the edge v0-v1, traversed from v1 to
\* v0, and has its third vertex at pixel d, with the pixels its scan yields
Neighbour(d) ==
    ScanOfTriple(<<triInput[2], triInput[1], Vertex(d.x, d.y)>>)

ScanFinished == triStage = "iter" /\ triLast = "none"

\* the scanned triangle (pixels mine) and its neighbour n share no pixel, and n
\* yields no pixel of its own edges or of the shared edge
Apart(mine, n) ==
    n.triangle.some =>
        /\ mine \cap n.yielded = {}
        /\ \A p \in n.yielded :
              /\ ~OnAnEdge(n.triangle, p)
              /\ EdgeValue(triangle, 1, p) # F(0)

\* no pixel of the finished scan lies on an edge of its triangle, and a scan that
\* yielded pixels is apart from the scan of every neighbour
NotDoubleCovered(mine) ==
    /\ \A p \in mine : ~OnAnEdge(triangle, p)
    /\ mine # {} => \A d \in Pixels : Apart(mine, Neighbour(d))

SharesCoveredEdge(n) ==
    /\ n.triangle.some
    /\ n.yielded # {}
    /\ \E p \in Pixels :
          /\ EdgeValue(triangle, 1, p) = F(0)
          /\ \A i \in {2, 3} : FGt(EdgeValue(triangle, i, p), F(0))
          /\ \A i \in {2, 3} : FGt(EdgeValue(n.triangle, i, p), F(0))

BoxLow(v) == Vec2(AsI32(Min3(v[1].x, v[2].x, v[3].x)), AsI32(Min3(v[1].y, v[2].y, v[3].y)))
BoxHigh(v) == Vec2(AsI32(Max3(v[1].x, v[2].x, v[3].x)), AsI32(Max3(v[1].y, v[2].y, v[3].y)))

\* the k-th pixel of the inclusive rectangle low..high in row-major order
RowMajorPixel(low, high, k) ==
    Vec2(low.x + ((k - 1) % (high.x - low.x + 1)),
         low.y + ((k - 1) \div (high.x - low.x + 1)))

\* the pixels of the inclusive rectangle low..high in row-major order
RowMajor(low, high) ==
    [k \in 1..((high.x - low.x + 1) * (high.y - low.y + 1)) |-> RowMajorPixel(low, high, k)]

\* all three edge functions of the accepted triangle, computed directly, are
\* strictly positive at pixel p
StrictlyInside(p) == \A i \in 1..3 : FGt(EdgeValue(triangle, i, p), F(0))

\* the pixels a scan of the accepted triangle has to yield, in order
ExpectedScan ==
    SelectSeq(RowMajor(BoxLow(triangle.vertices), BoxHigh(triangle.vertices)), StrictlyInside)

\* the pixel of the i-th fragment yielded
PixelOf(frag) == Vec2(AsI32(frag.position.x), AsI32(frag.position.y))

\* the fragments yielded so far are the first pixels of the expected scan, all
\* of them once next has returned None
ScanMatches(expected) ==
    /\ Len(fragments) <= Len(expected)
    /\ \A i \in 1..Len(fragments) :
          /\ PixelOf(fragments[i]) = expected[i]
          /\ fragments[i].position.x = F(expected[i].x)
          /\ fragments[i].position.y = F(expected[i].y)
    /\ triLast = "none" => Len(fragments) = Len(expected)

C23_RectIsMinMax ==
    triangle.some =>
        /\ triangle.rect.start.x = Min3(triangle.vertices[1].x, triangle.vertices[2].x,
                                        triangle.vertices[3].x)
        /\ triangle.rect.start.y = Min3(triangle.vertices[1].y, triangle.vertices[2].y,
                                        triangle.vertices[3].y)
        /\ triangle.rect.end.x = Max3(triangle.vertices[1].x, triangle.vertices[2].x,
                                      triangle.vertices[3].x)
        /\ triangle.rect.end.y = Max3(triangle.vertices[1].y, triangle.vertices[2].y,
                                      triangle.vertices[3].y)


(***************************************************************************)
(* The units' initial states and steps.                                    *)
(***************************************************************************)
(***************************************************************************)
(* Calls of the math functions on bounded arguments                        *)
(***************************************************************************)
\* the points projected: (x, y, z, 1)
Points == {Vec4(F(x), F(y), F(z), F(1)) : x \in {0, 1}, y \in {0, 1}, z \in {-2, -1, 1, 2}}

\* Matrix4::projection(aspect, pi/2, z_near, z_far) * point
ProjectionCalls ==
    {[fn |-> "Matrix4::projection", args |-> <<F(aspect), HalfPi, F(z_near), F(z_far), v>>] :
        aspect \in {1, 2}, z_near \in {1, 2}, z_far \in {3, 100}, v \in Points}

\* the homogeneous vectors converted
Homogeneous == {Vec4(F(x), F(y), F(z), F(w)) :
                    x \in {1, 2}, y \in {-1, 4}, z \in {0, 6}, w \in {-2, 0, 1, 2}}

\* Vector3::from(Vector4) of vectors.rs and of matrices.rs
ConversionCalls ==
    {[fn |-> fn, args |-> <<v>>] :
        fn \in {"vectors::Vector3::from", "matrices::Vector3::from"}, v \in Homogeneous}

\* integer vertices on a small grid
VerticesI2 == {Vec2(x, y) : x \in 0..MaxPixel, y \in 0..MaxPixel}

\* RasterTriangle::new(first, second, third), with the triples of its two tests
RasterCalls ==
    {[fn |-> "RasterTriangle::new", args |-> t] :
        t \in (VerticesI2 \X VerticesI2 \X VerticesI2)
              \cup {<<Vec2(0, 0), Vec2(100, 0), Vec2(50, 50)>>,
                    <<Vec2(0, 0), Vec2(0, 100), Vec2(50, 50)>>}}

\* screen-space vertices with w = 1 on the small grid
SmallVertices == {Vertex(x, y) : x \in 0..MaxPixel, y \in 0..MaxPixel}

\* triangles reaching further than 2^12 pixels, their centroids integral
BigTriples ==
    {<<Vertex(0, 0), Vertex(4097, 1), Vertex(1, 4100)>>,
     <<Vertex(0, 0), Vertex(4098, 1), Vertex(0, 4100)>>}

\* the edge values of TriangleIter::next at one pixel of Triangle::new(t)
TriangleEdgeCalls ==
    {[fn |-> "TriangleIter::next", args |-> <<t, p>>] :
        t \in (SmallVertices \X SmallVertices \X SmallVertices) \cup BigTriples,
        p \in VerticesI2}

\* the edge values of Rasterizer::next at one pixel of RasterTriangle::new(t)
RasterizerEdgeCalls ==
    {[fn |-> "Rasterizer::next", args |-> <<t, p>>] :
        t \in VerticesI2 \X VerticesI2 \X VerticesI2, p \in VerticesI2}

\* the f32 position of a pixel
PositionOf(p) == Vec2(F(p.x), F(p.y))

\* the edge values the closure of TriangleIter::next computes at pixel p
EdgesOfIter(tr, it, p) ==
    [some |-> TRUE, triangle |-> tr,
     cofs |-> Coefficients(it, V2Sub(PositionOf(p), it.start))]

\* Triangle::new, into_iter, and the closure of next at pixel p
EdgesOfTriangle(tr, p) ==
    IF tr.some THEN EdgesOfIter(tr, TriangleIterNew(tr), p) ELSE [some |-> FALSE]

\* the edge values the closure of Rasterizer::next computes at pixel p
EdgesOfRasterizer(tr, rz, p) ==
    IF rz.some
    THEN [some |-> TRUE, triangle |-> tr, rect |-> rz.iter.rect,
          cofs |-> RasterCoefficients(rz, I2Sub(p, rz.iter.rect.start))]
    ELSE [some |-> FALSE]

\* RasterTriangle::new, Rasterizer::new, and the closure of next at pixel p
EdgesOfRasterTriangle(tr, p) ==
    IF tr.some THEN EdgesOfRasterizer(tr, RasterizerNew(tr), p) ELSE [some |-> FALSE]

\* the called function returns value
Returns(fn, value) ==
    /\ unit = "call"
    /\ UNCHANGED <<unit, exceptCall>>
    /\ call.fn = fn
    /\ ~result.done
    /\ result' = [done |-> TRUE, value |-> value]
    /\ UNCHANGED call

\* matrix * point for matrix = Matrix4::projection(aspect, fov, z_near, z_far)
CallProjection ==
    Returns("Matrix4::projection",
            FMatVec(Projection(call.args[1], call.args[2], call.args[3], call.args[4]),
                    call.args[5]))

\* Vector3::from(Vector4) of vectors.rs
CallVector3From == Returns("vectors::Vector3::from", V4ToV3(call.args[1]))

\* Vector3::from(Vector4) of matrices.rs
CallMatricesVector3From == Returns("matrices::Vector3::from", Vector3From(call.args[1]))

\* RasterTriangle::new
CallRasterTriangleNew ==
    Returns("RasterTriangle::new", RasterTriangleNew(call.args[1], call.args[2], call.args[3]))

\* the closure of TriangleIter::next on a pixel of Triangle::new(vertices)
CallTriangleIterNext ==
    Returns("TriangleIter::next", EdgesOfTriangle(TriangleNew(call.args[1]), call.args[2]))

\* the closure of Rasterizer::next on a pixel of RasterTriangle::new(vertices)
CallRasterizerNext ==
    Returns("Rasterizer::next",
            EdgesOfRasterTriangle(RasterTriangleNew(call.args[1][1], call.args[1][2],
                                                    call.args[1][3]),
                                  call.args[2]))

CallInit ==
    /\ unit = "call"
    /\ BufIdle
    /\ MatIdle
    /\ TriIdle
    /\ RectIdle
    /\ GameIdle
    /\ LaterIdle
    /\ \/ call \in ProjectionCalls
       \/ call \in ConversionCalls
       \/ call \in RasterCalls
       \/ call \in TriangleEdgeCalls
       \/ call \in RasterizerEdgeCalls
    /\ result = NoResult

CallNext ==
    \/ CallProjection
    \/ CallVector3From
    \/ CallMatricesVector3From
    \/ CallRasterTriangleNew
    \/ CallTriangleIterNext
    \/ CallRasterizerNext

(***************************************************************************)
(* Claims about the math functions                                         *)
(***************************************************************************)
\* the call C11 names: projection(1, pi/2, 1, 100) applied to (1, 1, -2, 1)
KnownProjection ==
    /\ call.fn = "Matrix4::projection"
    /\ call.args = <<F(1), HalfPi, F(1), F(100), Vec4(F(1), F(1), F(-2), F(1))>>
    /\ result.done

\* C11: Matrix4::projection with aspect = 1, fov = pi/2, near = 1, far = 100
\* applied to the point (1, 1, -2, 1) yields a projected z/w of -0.5.
C11_KnownProjectedDepth ==
    KnownProjection => FDiv(result.value.z, result.value.w) = Rat(-1, 2)

\* the divisor C12 names: w, or 1 when w is 0
Divisor(v) == IF v.w = F(0) THEN F(1) ELSE v.w

\* C12: converting a Vector4 to a Vector3 divides x, y and z by w, by 1 when
\* w is 0, so that w = 1 and w = 0 keep x, y and z unchanged.
C12_ConversionDividesByW ==
    (call.fn \in {"vectors::Vector3::from", "matrices::Vector3::from"} /\ result.done) =>
        /\ result.value.x = FDiv(call.args[1].x, Divisor(call.args[1]))
        /\ result.value.y = FDiv(call.args[1].y, Divisor(call.args[1]))
        /\ result.value.z = FDiv(call.args[1].z, Divisor(call.args[1]))
        /\ call.args[1].w \in {F(0), F(1)} =>
              result.value = Vec3(call.args[1].x, call.args[1].y, call.args[1].z)

\* the signed area of an integer triple: cross(v1 - v0, v2 - v0)
SignedArea(t) ==
    (t[2].x - t[1].x) * (t[3].y - t[1].y) - (t[2].y - t[1].y) * (t[3].x - t[1].x)

\* C19: RasterTriangle::new accepts an integer vertex triple exactly when its
\* signed area is strictly positive, whatever the size of the triangle.
C19_AcceptsExactlyPositiveArea ==
    (call.fn = "RasterTriangle::new" /\ result.done) =>
        (result.value.some <=> SignedArea(call.args) > 0)

\* the call returned the edge values of an accepted triangle at its pixel
EdgesReturned(fn) == call.fn = fn /\ result.done /\ result.value.some

\* the pixel of the call
CallPixel == call.args[2]

\* the pixel of the call lies in the bounding rectangle of the Triangle
InTriangleBox ==
    /\ CallPixel.x >= BoxLow(result.value.triangle.vertices).x
    /\ CallPixel.x <= BoxHigh(result.value.triangle.vertices).x
    /\ CallPixel.y >= BoxLow(result.value.triangle.vertices).y
    /\ CallPixel.y <= BoxHigh(result.value.triangle.vertices).y

\* the pixel of the call lies in the rectangle of the Rasterizer
InRasterizerArea ==
    /\ CallPixel.x \in result.value.rect.start.x..result.value.rect.end.x
    /\ CallPixel.y \in result.value.rect.start.y..result.value.rect.end.y

\* edge i of RasterTriangle t at pixel p, computed directly: cross(edge_i, p - v_i)
RasterEdgeValue(t, i, p) == AsI32(I2Cross(t.segments[i], I2Sub(p, t.vertices[i])))

\* the incremental edge values returned equal the directly computed ones
TriangleIterAgrees ==
    \A i \in 1..3 : result.value.cofs[i] = EdgeValue(result.value.triangle, i, CallPixel)

RasterizerAgrees ==
    \A i \in 1..3 : result.value.cofs[i] = RasterEdgeValue(result.value.triangle, i, CallPixel)

\* the vertices of the Triangle are integers in 0..ExactCoord
SmallIntegers(vertices) ==
    \A i \in 1..3 :
        /\ vertices[i].x.d = 1 /\ vertices[i].x.n \in 0..ExactCoord
        /\ vertices[i].y.d = 1 /\ vertices[i].y.n \in 0..ExactCoord

\* the vertices of the RasterTriangle are in 0..ExactCoord
SmallPixels(vertices) ==
    \A i \in 1..3 : vertices[i].x \in 0..ExactCoord /\ vertices[i].y \in 0..ExactCoord

\* C22 as stated: for every accepted triangle, every edge i and every pixel p of
\* the bounding rectangle, start_i + dx * (-edge_i.y) + dy * edge_i.x with
\* (dx, dy) = p - rect.start equals cross(edge_i, p - v_i).z, also when
\* rect.start is not the minimum corner; the same holds for the starts and
\* deltas of the integer Rasterizer.
C22_IncrementalEqualsDirect ==
    /\ (EdgesReturned("TriangleIter::next") /\ InTriangleBox) => TriangleIterAgrees
    /\ (EdgesReturned("Rasterizer::next") /\ InRasterizerArea) => RasterizerAgrees

\* C22 amended: for every accepted triangle whose vertex coordinates are
\* integers between 0 and 1024, every edge i and every pixel p of the bounding
\* rectangle, the incremental value equals cross(edge_i, p - v_i).z exactly,
\* also when rect.start is not the minimum corner, and the same holds for the
\* integer Rasterizer; beyond that range the f32 roundings of the two
\* evaluations differ.
C22_IncrementalExactOnSmallIntegers ==
    /\ (EdgesReturned("TriangleIter::next") /\ InTriangleBox
            /\ SmallIntegers(result.value.triangle.vertices)) => TriangleIterAgrees
    /\ (EdgesReturned("Rasterizer::next") /\ InRasterizerArea
            /\ SmallPixels(result.value.triangle.vertices)) => RasterizerAgrees

\* C22 witness: the edge values of an accepted triangle whose rect.start is not
\* the minimum corner were computed at a pixel away from both corners' columns
C22_Witness ==
    /\ EdgesReturned("TriangleIter::next")
    /\ InTriangleBox
    /\ SmallIntegers(result.value.triangle.vertices)
    /\ FGt(result.value.triangle.rect.start.x, result.value.triangle.rect.end.x)
    /\ F(CallPixel.x) # result.value.triangle.rect.start.x
    /\ F(CallPixel.y) # result.value.triangle.rect.start.y
    /\ \E i \in 1..3 : result.value.cofs[i] # F(0)

(***************************************************************************)
(* Rect2 iterated  (src/src/raster.rs)                                     *)
(***************************************************************************)
\* the integer corners a Rect2 is built from
Corners == {Vec2(F(x), F(y)) : x \in -1..MaxCorner, y \in -1..MaxCorner}

\* Rect2::new(start, end).into_iter()
Rect2IntoIter ==
    /\ unit = "rect"
    /\ UNCHANGED <<unit, exceptRect>>
    /\ rectLast = "start"
    /\ rectIter = NoIter
    /\ Rect2New(rectCorners[1], rectCorners[2]).some
    /\ rectIter' = Rect2IterNew(Rect2New(rectCorners[1], rectCorners[2]))
    /\ rectLast' = "iter"
    /\ UNCHANGED <<rectCorners, rectSeen>>

\* what one call of next leaves behind
Rect2Yielded(r) ==
    /\ rectIter' = r.iter
    /\ rectSeen' = IF r.some THEN Append(rectSeen, r.item) ELSE rectSeen
    /\ rectLast' = IF r.some THEN "some" ELSE "none"

\* Rect2Iter::next
Rect2Next ==
    /\ unit = "rect"
    /\ UNCHANGED <<unit, exceptRect>>
    /\ rectLast \in {"iter", "some", "none"}
    /\ Rect2Yielded(Rect2IterNext(rectIter))
    /\ UNCHANGED rectCorners

RectInit ==
    /\ unit = "rect"
    /\ BufIdle
    /\ MatIdle
    /\ TriIdle
    /\ CallIdle
    /\ GameIdle
    /\ LaterIdle
    /\ rectCorners \in Corners \X Corners
    /\ rectIter = NoIter
    /\ rectSeen = <<>>
    /\ rectLast = "start"

RectNext ==
    \/ Rect2IntoIter
    \/ Rect2Next

\* the corners as integers
CornerLow(i) == IF rectCorners[1][i].n < rectCorners[2][i].n
                THEN rectCorners[1][i].n ELSE rectCorners[2][i].n
CornerHigh(i) == IF rectCorners[1][i].n < rectCorners[2][i].n
                 THEN rectCorners[2][i].n ELSE rectCorners[1][i].n
Columns == CornerHigh("x") - CornerLow("x") + 1
Rows == CornerHigh("y") - CornerLow("y") + 1

\* C20: Rect2Iter yields the (|ex - sx| + 1) * (|ey - sy| + 1) positions of the
\* rectangle, corners inclusive and in either order, row by row with x
\* fastest, from (min x, min y) to (max x, max y), and then None on every call.
C20_RowMajorInclusive ==
    rectLast \in {"iter", "some", "none"} =>
        /\ Len(rectSeen) <= Columns * Rows
        /\ \A i \in 1..Len(rectSeen) :
              rectSeen[i] = Vec2(CornerLow("x") + ((i - 1) % Columns),
                                 CornerLow("y") + ((i - 1) \div Columns))
        /\ rectLast = "none" =>
              /\ Len(rectSeen) = Columns * Rows
              /\ rectSeen[Len(rectSeen)] = Vec2(CornerHigh("x"), CornerHigh("y"))
              /\ ~Rect2IterNext(rectIter).some

\* C20 witness: a rectangle of several rows and columns, its corners given
\* right to left, has been iterated to the end
C20_Witness ==
    /\ rectLast = "none"
    /\ rectCorners[1].x.n > rectCorners[2].x.n
    /\ rectCorners[1].y.n < rectCorners[2].y.n
    /\ Columns >= 2
    /\ Rows >= 3

(***************************************************************************)
(* MyGame of the first example  (src/examples/first.rs), with Color        *)
(* (src/src/color.rs) and WindowState (src/src/window_state.rs).           *)
(* A u32 colour is the tuple of its four bytes <<a, r, g, b>>.             *)
(***************************************************************************)
\* winit's PhysicalSize<u32>
PhysicalSize(width, height) == [width |-> width, height |-> height]

\* `as u32` of a finite f32: truncated, a negative value saturates to 0
AsU32(a) == IF AsI32(a) < 0 THEN 0 ELSE AsI32(a)

\* one channel of Color::to_u32: (c * 255.0).trunc() as u32 % 256
Channel(c) == AsU32(FMul(c, F(255))) % 256

\* Color::from_rgb(r, g, b).to_u32(): alpha is 1.0
ToU32(r, g, b) == <<Channel(F(1)), Channel(r), Channel(g), Channel(b)>>

\* the clear colour 0xFFFFFFFF
White == <<255, 255, 255, 255>>

\* the cell of a surface nothing has been drawn to
Blank == <<0, 0, 0, 0>>

\* Vector3::interpolate: the three vertices' attributes weighted by the coefficients
Interpolate(coefs, a, b, c) ==
    FAdd(FAdd(FMul(a, coefs.x), FMul(b, coefs.y)), FMul(c, coefs.z))

\* the texture: only its dimensions matter to the lookup
Image == [width |-> 2, height |-> 2]

\* the texel coordinates of interpolated uvs
TexelOf(u, v) == Vec2(AsU32(FMul(u, F(Image.width))), AsU32(FMul(v, F(Image.height))))

\* ImageBuffer::get_pixel_checked returns Some
GetPixelChecked(texture) == texture.x < Image.width /\ texture.y < Image.height

\* the texel lookup of a fragment finds a texel
TexelFound(coefs, uv) ==
    GetPixelChecked(TexelOf(Interpolate(coefs, uv[1].x, uv[2].x, uv[3].x),
                            Interpolate(coefs, uv[1].y, uv[2].y, uv[3].y)))

\* the colour written for a fragment
FragmentColor(coefs, color) ==
    ToU32(Interpolate(coefs, color[1].x, color[2].x, color[3].x),
          Interpolate(coefs, color[1].y, color[2].y, color[3].y),
          Interpolate(coefs, color[1].z, color[2].z, color[3].z))

\* mutant of InBounds: the bounds are inclusive
InBoundsClosed(position, framebuffer) ==
    /\ ~FLt(position.x, F(0))
    /\ ~FGt(position.x, F(Width(framebuffer)))
    /\ ~FLt(position.y, F(0))
    /\ ~FGt(position.y, F(Height(framebuffer)))
    /\ FLt(position.z, F(0))
    /\ FGt(position.z, F(-1))

\* the bounds and depth-range test of the compositing loop
InBounds(position, framebuffer) ==
    /\ FGt(position.x, F(0))
    /\ FLt(position.x, F(Width(framebuffer)))
    /\ FGt(position.y, F(0))
    /\ FLt(position.y, F(Height(framebuffer)))
    /\ FLt(position.z, F(0))
    /\ FGt(position.z, F(-1))

\* pixel_pos of a fragment
PixelPos(position) == Vec2(AsI32(position.x), AsI32(position.y))

\* the buffers after one fragment, and how the loop body was left
Step(framebuffer, depth, outcome) ==
    [framebuffer |-> framebuffer, depth |-> depth, outcome |-> outcome]

\* the loop body after depth.set_pixel has run: texel lookup, then the colour
Shaded(framebuffer, depth, frag, tri, pixel_pos) ==
    IF ~TexelFound(frag.coefs, tri.uv)
    THEN Step(framebuffer, depth, "no texel")
    ELSE IF IndexPanics(framebuffer, pixel_pos)
    THEN Step(framebuffer, depth, "panic")
    ELSE Step(SetPixelData(framebuffer, pixel_pos, FragmentColor(frag.coefs, tri.color)),
              depth, "written")

\* mutant of DepthTested: the comparison of the depth test is reversed
DepthTestedReversed(framebuffer, depth, frag, tri, pixel_pos) ==
    IF IndexPanics(depth, pixel_pos)
    THEN Step(framebuffer, depth, "panic")
    ELSE IF FLt(GetPixelValue(depth, pixel_pos), frag.position.z)
    THEN Step(framebuffer, depth, "hidden")
    ELSE Shaded(framebuffer, SetPixelData(depth, pixel_pos, frag.position.z),
                frag, tri, pixel_pos)

\* the loop body for a fragment inside the bounds: the depth test
DepthTested(framebuffer, depth, frag, tri, pixel_pos) ==
    IF IndexPanics(depth, pixel_pos)
    THEN Step(framebuffer, depth, "panic")
    ELSE IF FGt(GetPixelValue(depth, pixel_pos), frag.position.z)
    THEN Step(framebuffer, depth, "hidden")
    ELSE Shaded(framebuffer, SetPixelData(depth, pixel_pos, frag.position.z),
                frag, tri, pixel_pos)

\* the body of the compositing loop for one fragment
CompositeFragment(framebuffer, depth, frag, tri) ==
    IF InBounds(frag.position, framebuffer)
    THEN DepthTested(framebuffer, depth, frag, tri, PixelPos(frag.position))
    ELSE Step(framebuffer, depth, "outside")

\* mutant of NewEventResult: a Resized event replaces the buffers at once
NewEventEager(g, event) ==
    IF event.kind = "CloseRequested"
    THEN [g EXCEPT !.should_close = TRUE]
    ELSE IF event.size.width \div g.scale = 0 \/ event.size.height \div g.scale = 0
    THEN g
    ELSE [g EXCEPT !.resize = [some |-> TRUE, size |-> event.size],
                   !.framebuffer = BufferNew(Vec2(event.size.width \div g.scale,
                                                  event.size.height \div g.scale), White),
                   !.depth = BufferNew(Vec2(event.size.width \div g.scale,
                                            event.size.height \div g.scale), F(-1))]

\* mutant of NewEventResult: every Resized event is recorded
NewEventUnfiltered(g, event) ==
    IF event.kind = "CloseRequested"
    THEN [g EXCEPT !.should_close = TRUE]
    ELSE [g EXCEPT !.resize = [some |-> TRUE, size |-> event.size]]

\* MyGame::new_event
NewEventResult(g, event) ==
    IF event.kind = "CloseRequested"
    THEN [g EXCEPT !.should_close = TRUE]
    ELSE IF event.size.width \div g.scale = 0 \/ event.size.height \div g.scale = 0
    THEN g
    ELSE [g EXCEPT !.resize = [some |-> TRUE, size |-> event.size]]

\* MyGame::resize: both buffers allocated anew (unwrap panics on None)
Resize(g, size_vec) ==
    [g EXCEPT !.framebuffer = BufferNew(size_vec, White),
              !.depth = BufferNew(size_vec, F(-1))]

\* the game after the resize step of update
Resized(g) ==
    IF g.resize.some
    THEN Resize(g, Vec2(g.resize.size.width \div g.scale, g.resize.size.height \div g.scale))
    ELSE g

\* WindowState::resize: the surface is resized with the window
WindowResized(w, g) ==
    IF g.resize.some
    THEN [size |-> g.resize.size,
          surface |-> [i \in 1..(g.resize.size.width * g.resize.size.height) |-> Blank]]
    ELSE w

\* mutant of Cleared: the depth buffer keeps the last frame
ClearedColourOnly(g) == [g EXCEPT !.framebuffer = ClearData(g.framebuffer, White)]

\* the two clears at the start of MyGame::draw
Cleared(g) ==
    [g EXCEPT !.framebuffer = ClearData(g.framebuffer, White),
              !.depth = ClearData(g.depth, F(-1))]

Min(a, b) == IF a < b THEN a ELSE b

\* mutant of Source: the framebuffer is read at the physical pixel
SourceUnscaled(x, y, scale) == Vec2(x, y)

\* the framebuffer position WindowState::draw reads for the physical pixel (x, y)
Source(x, y, scale) == Vec2(x \div scale, y \div scale)

\* the physical pixels the loops of WindowState::draw visit
Visited(w, framebuffer, scale) ==
    {Vec2(x, y) : x \in 0..(Min(Width(framebuffer) * scale, w.size.width) - 1),
                  y \in 0..(Min(Height(framebuffer) * scale, w.size.height) - 1)}

\* a get_pixel of WindowState::draw panics
BlitPanics(w, framebuffer, scale) ==
    \E p \in Visited(w, framebuffer, scale) : IndexPanics(framebuffer, Source(p.x, p.y, scale))

\* the surface cell of index i after WindowState::draw
BlitCell(w, framebuffer, scale, i, p) ==
    IF p \in Visited(w, framebuffer, scale)
    THEN GetPixelValue(framebuffer, Source(p.x, p.y, scale))
    ELSE w.surface[i]

\* WindowState::draw: cell size.width * y + x receives the pixel read
Blit(w, framebuffer, scale) ==
    [w EXCEPT !.surface = [i \in 1..Len(w.surface) |->
        BlitCell(w, framebuffer, scale, i,
                 Vec2((i - 1) % w.size.width, (i - 1) \div w.size.width))]]

\* the window events the game reacts to
Events ==
    {[kind |-> "CloseRequested"]}
    \cup {[kind |-> "Resized", size |-> PhysicalSize(width, height)] :
              width \in 0..MaxWindow, height \in 0..MaxWindow}

\* vertex colours and uvs as the quads of draw carry them
Attributes ==
    {[color |-> <<Vec3(F(1), F(0), F(0)), Vec3(F(1), F(0), F(0)), Vec3(F(1), F(0), F(0))>>,
      uv |-> <<Vec2(F(0), F(0)), Vec2(F(1), F(0)), Vec2(F(0), F(1))>>],
     [color |-> <<Vec3(F(0), F(1), F(0)), Vec3(F(0), F(1), F(0)), Vec3(F(0), F(1), F(0))>>,
      uv |-> <<Vec2(F(0), F(1)), Vec2(F(1), F(0)), Vec2(F(1), F(1))>>]}

\* barycentric weights of a fragment: positive, summing to 1; the second set
\* lies 2^-25 from an edge
Weights ==
    {Vec3(Rat(1, 2), Rat(1, 4), Rat(1, 4)),
     Vec3([n |-> 1, d |-> 2^25], [n |-> 2^24 - 1, d |-> 2^25], Rat(1, 2))}

\* interpolated depths, in and out of the range (-1, 0)
Depths == {Rat(-3, 4), Rat(-1, 2), NaN}

\* the fragments a TriangleIter may yield: integer positions, any depth
FragmentInputs ==
    {[position |-> Vec3(F(x), F(y), z), coefs |-> c] :
        x \in 0..MaxWindow, y \in 0..MaxWindow, z \in Depths, c \in Weights}

\* the framebuffer pixels
PixelsOf(b) == {Vec2(x, y) : x \in 0..(Width(b) - 1), y \in 0..(Height(b) - 1)}

\* the colour main fills the framebuffer with: 0xFFFFFF
Initial == <<0, 255, 255, 255>>

\* the first pixel the compositing loop can write
Probe == Vec2(1, 1)

\* a framebuffer holds a fragment's colour at the probe
Painted(b) == InRange(b, Probe) /\ GetPixelValue(b, Probe) \notin {White, Initial}

\* the log of a frame at its start: what the framebuffer was before it
FrameStart(g) ==
    [count |-> 0, covered |-> {},
     before |-> [size |-> g.framebuffer.size, painted |-> Painted(g.framebuffer)],
     pre |-> [outcome |-> "none"], last |-> [outcome |-> "none"], deepest |-> <<>>]

\* the log once the frame is over and the next event has arrived
FrameOver == [count |-> 0, covered |-> {}, before |-> [size |-> Vec2(0, 0), painted |-> FALSE],
              pre |-> [outcome |-> "none"], last |-> [outcome |-> "none"], deepest |-> <<>>]

\* the log after an event: whether new_event let a Resized event pass unrecorded
EventLog(g, after, event) ==
    [FrameOver EXCEPT !.last = [outcome |->
        IF event.kind = "Resized" /\ after.resize # [some |-> TRUE, size |-> event.size]
        THEN "ignored" ELSE "none"]]

\* the log entry of a fragment: its pixel and depth if it passed the bounds check
LastOf(frag, outcome) ==
    IF outcome = "outside"
    THEN [outcome |-> outcome]
    ELSE [outcome |-> outcome, pixel_pos |-> PixelPos(frag.position), z |-> frag.position.z]

\* the greatest depth among the fragments that passed the bounds check, for
\* each pixel that received one, once a fragment of depth z has reached pixel
Deepest(f, pixel, z) ==
    [p \in f.covered \cup {pixel} |->
        IF p # pixel THEN f.deepest[p]
        ELSE IF p \in f.covered /\ FGt(f.deepest[p], z) THEN f.deepest[p]
        ELSE z]

\* the log of a frame after one more fragment
FrameAfter(f, g, frag, tri, step) ==
    [count |-> f.count + 1,
     covered |-> IF step.outcome = "outside" THEN f.covered
                 ELSE f.covered \cup {PixelPos(frag.position)},
     before |-> f.before,
     pre |-> Step(g.framebuffer, g.depth, "none"),
     last |-> LastOf(frag, step.outcome),
     deepest |-> IF step.outcome = "outside" THEN f.deepest
                 ELSE Deepest(f, PixelPos(frag.position), frag.position.z)]

\* Game::new_event, called by App::window_event between two updates
NewEvent(event) ==
    /\ unit = "game"
    /\ UNCHANGED <<unit, exceptGame>>
    /\ gamePc = "events"
    /\ game' = NewEventResult(game, event)
    /\ frame' = EventLog(game, NewEventResult(game, event), event)
    /\ UNCHANGED <<window, gamePc>>

\* MyGame::update up to the call of draw: the close check and the resize
Update ==
    /\ unit = "game"
    /\ UNCHANGED <<unit, exceptGame>>
    /\ gamePc = "events"
    /\ game' = Resized(game)
    /\ window' = WindowResized(window, game)
    /\ gamePc' = IF Resized(game).framebuffer.some /\ Resized(game).depth.some
                 THEN "clear" ELSE "panicked"
    /\ frame' = FrameStart(game)

\* MyGame::draw, its first two statements
DrawClear ==
    /\ unit = "game"
    /\ UNCHANGED <<unit, exceptGame>>
    /\ gamePc = "clear"
    /\ game' = Cleared(game)
    /\ gamePc' = "fragments"
    /\ UNCHANGED <<window, frame>>

\* what one pass of the compositing loop leaves behind
Composited(frag, tri, step) ==
    /\ game' = [game EXCEPT !.framebuffer = step.framebuffer, !.depth = step.depth]
    /\ gamePc' = IF step.outcome = "panic" THEN "panicked" ELSE "fragments"
    /\ frame' = FrameAfter(frame, game, frag, tri, step)

\* MyGame::draw, one pass of the compositing loop
Composite(frag, tri) ==
    /\ unit = "game"
    /\ UNCHANGED <<unit, exceptGame>>
    /\ gamePc = "fragments"
    /\ frame.count < MaxFragments
    /\ Composited(frag, tri, CompositeFragment(game.framebuffer, game.depth, frag, tri))
    /\ UNCHANGED window

\* the end of MyGame::update: state.draw(&self.framebuffer, self.scale), after
\* which the event loop goes on, or stops if exit was called
Present ==
    /\ unit = "game"
    /\ UNCHANGED <<unit, exceptGame>>
    /\ gamePc = "fragments"
    /\ window' = IF BlitPanics(window, game.framebuffer, game.scale)
                 THEN window
                 ELSE Blit(window, game.framebuffer, game.scale)
    /\ gamePc' = IF BlitPanics(window, game.framebuffer, game.scale) THEN "panicked"
                 ELSE IF game.should_close THEN "exited"
                 ELSE "events"
    /\ frame' = [frame EXCEPT !.pre = [outcome |-> "none"],
                              !.last = [outcome |-> "presented"]]
    /\ UNCHANGED game

\* main: the game and its window as constructed
GameInit ==
    /\ unit = "game"
    /\ BufIdle
    /\ MatIdle
    /\ TriIdle
    /\ CallIdle
    /\ RectIdle
    /\ LaterIdle
    /\ \E scale \in {1, 2}, width \in 1..MaxDim, height \in 1..MaxDim :
          game = [framebuffer |-> BufferNew(Vec2(width, height), Initial),
                  depth |-> BufferNew(Vec2(width, height), F(0)),
                  scale |-> scale,
                  should_close |-> FALSE,
                  resize |-> [some |-> FALSE]]
    /\ window = [size |-> PhysicalSize(MaxWindow, MaxWindow),
                 surface |-> [i \in 1..(MaxWindow * MaxWindow) |-> Blank]]
    /\ gamePc = "events"
    /\ frame = FrameStart(game)

GameNext ==
    \/ \E event \in Events : NewEvent(event)
    \/ Update
    \/ DrawClear
    \/ \E frag \in FragmentInputs, tri \in Attributes : Composite(frag, tri)
    \/ Present

(***************************************************************************)
(* Claims about the game loop                                              *)
(***************************************************************************)
\* the last step was a fragment past the bounds check
PassedBounds == frame.last.outcome \in {"hidden", "no texel", "written", "panic"}

\* the pixel of the last fragment and the depth stored there before it
LastPixel == frame.last.pixel_pos
StoredDepth == GetPixelValue(frame.pre.depth, LastPixel)

\* the last fragment left both buffers as they were
BuffersKept ==
    /\ game.framebuffer = frame.pre.framebuffer
    /\ game.depth = frame.pre.depth

\* C13: a fragment past the bounds check is discarded, neither buffer
\* modified, when the stored depth is equal to or greater than its depth;
\* only a fragment of strictly greater depth overwrites.
C13_EqualOrNearerDiscarded ==
    (PassedBounds /\ ~IndexPanics(frame.pre.depth, LastPixel)
        /\ ~FLt(StoredDepth, frame.last.z)) => BuffersKept

\* C14: a fragment whose texel lookup is out of range modifies neither the
\* framebuffer nor the depth buffer.
C14_NoTexelNoWrite ==
    frame.last.outcome = "no texel" => BuffersKept

\* C15: every get_pixel and set_pixel of the compositing loop is at a position
\* with 0 <= x < width and 0 <= y < height, and none panics.
C15_AccessesInRange ==
    PassedBounds =>
        /\ frame.last.outcome # "panic"
        /\ InRange(frame.pre.framebuffer, LastPixel)
        /\ InRange(frame.pre.depth, LastPixel)

\* C15 witness: a fragment was written at the last column and row of a
\* framebuffer wider than it is high
C15_Witness ==
    /\ frame.last.outcome = "written"
    /\ LastPixel = Vec2(Width(game.framebuffer) - 1, Height(game.framebuffer) - 1)
    /\ Width(game.framebuffer) > Height(game.framebuffer)
    /\ game.resize.some

\* the buffers have the dimensions of the accepted size
SizedFor(g) ==
    /\ g.framebuffer.size = Vec2(g.resize.size.width \div g.scale,
                                 g.resize.size.height \div g.scale)
    /\ g.depth.size = g.framebuffer.size

\* C16: a Resized event never changes the buffers when delivered; they are
\* replaced only at the start of an update, before its clear and draw; and
\* every step of a frame works on buffers of the dimensions
\* (width div scale, height div scale) of the most recently accepted size.
C16_ResizeAtFrameStart ==
    [][/\ (gamePc = "events" /\ gamePc' = "events") =>
              (game'.framebuffer = game.framebuffer /\ game'.depth = game.depth)
       /\ (game'.framebuffer.size # game.framebuffer.size
              \/ game'.depth.size # game.depth.size) =>
              (gamePc = "events" /\ gamePc' = "clear")
       /\ (gamePc' \in {"clear", "fragments"} /\ game'.resize.some) => SizedFor(game')
       /\ (gamePc = "fragments" /\ game.resize.some) => SizedFor(game)]_vars

\* C16 witness: a fragment is drawn into buffers that replaced those of
\* other dimensions at the start of this update
C16_Witness ==
    /\ gamePc = "fragments"
    /\ frame.last.outcome = "written"
    /\ game.resize.some
    /\ frame.before.size # game.framebuffer.size
    /\ Width(game.framebuffer) # Height(game.framebuffer)

\* C17: WindowState::draw with scale >= 1 gives, for every physical pixel
\* (x, y) with x < min(width * scale, size.width) and
\* y < min(height * scale, size.height), the surface cell size.width * y + x
\* the framebuffer pixel (x div scale, y div scale), every read in range.
C17_ScaledReplication ==
    frame.last.outcome = "presented" =>
        /\ gamePc # "panicked"
        /\ \A x \in 0..(Min(Width(game.framebuffer) * game.scale, window.size.width) - 1),
              y \in 0..(Min(Height(game.framebuffer) * game.scale, window.size.height) - 1) :
              /\ InRange(game.framebuffer, Vec2(x \div game.scale, y \div game.scale))
              /\ window.surface[window.size.width * y + x + 1]
                     = GetPixelValue(game.framebuffer, Vec2(x \div game.scale, y \div game.scale))

\* C17 witness: a framebuffer holding a drawn pixel was presented at scale 2
\* to a window narrower than the scaled framebuffer
C17_Witness ==
    /\ frame.last.outcome = "presented"
    /\ game.scale = 2
    /\ Width(game.framebuffer) * game.scale > window.size.width
    /\ \E p \in PixelsOf(game.framebuffer) : GetPixelValue(game.framebuffer, p) # White

\* C18: at the end of a frame every pixel that received no fragment holds the
\* clear colour 0xFFFFFFFF and its depth cell -1.0, whatever the previous
\* frame left there.
C18_UntouchedPixelsCleared ==
    frame.last.outcome = "presented" =>
        \A p \in PixelsOf(game.framebuffer) :
            p \notin frame.covered =>
                /\ GetPixelValue(game.framebuffer, p) = White
                /\ GetPixelValue(game.depth, p) = F(-1)

\* C18 witness: the pixel (1, 1), drawn in the previous frame, received no
\* fragment in this one, which drew elsewhere
C18_Witness ==
    /\ frame.last.outcome = "presented"
    /\ frame.before.size = game.framebuffer.size
    /\ frame.covered # {}
    /\ frame.before.painted
    /\ Probe \notin frame.covered

\* C25: after any sequence of window events and frames, Resized events whose
\* width or height divided by scale is 0 included (they are ignored), the
\* framebuffer and the depth buffer have identical, strictly positive
\* dimensions, and the unwrap of Buffer::new in resize never fails.
C25_BuffersPositive ==
    /\ [](/\ game.framebuffer.some
          /\ game.depth.some
          /\ game.framebuffer.size = game.depth.size
          /\ Width(game.framebuffer) > 0
          /\ Height(game.framebuffer) > 0)
    /\ [][gamePc = "events" => gamePc' \in {"events", "clear"}]_vars

\* C25 witness: with a resize already recorded, a Resized event whose height
\* divided by scale is 0 has just been ignored
C25_Witness ==
    /\ gamePc = "events"
    /\ frame.last.outcome = "ignored"
    /\ game.resize.some
    /\ game.scale = 2

\* C26: within one frame the depth stored at a pixel never decreases, and
\* after any sequence of fragments it equals the maximum depth among the
\* fragments at that pixel that passed the bounds check so far, or the clear
\* value -1 if there were none, whatever the order of the fragments.
C26_DepthIsMaximum ==
    (gamePc = "fragments" \/ frame.last.outcome = "presented") =>
        /\ \A p \in PixelsOf(game.depth) :
              GetPixelValue(game.depth, p)
                  = IF p \in frame.covered THEN frame.deepest[p] ELSE F(-1)
        /\ frame.covered \subseteq PixelsOf(game.depth)
        /\ (frame.count > 0 /\ gamePc = "fragments") =>
              \A p \in PixelsOf(game.depth) :
                  ~FLt(GetPixelValue(game.depth, p), GetPixelValue(frame.pre.depth, p))

\* C26 witness: a fragment reached a pixel that holds a greater depth from an
\* earlier fragment of this frame, and left it there
C26_Witness ==
    /\ gamePc = "fragments"
    /\ frame.last.outcome = "hidden"
    /\ FGt(frame.deepest[LastPixel], frame.last.z)
    /\ GetPixelValue(game.depth, LastPixel) = frame.deepest[LastPixel]

MatInit ==
    /\ unit = "matrix"
    /\ BufIdle
    /\ TriIdle
    /\ RestIdle
    /\ \E a \in Matrices :
          /\ matChain = <<a>>
          /\ matAcc = a
          /\ matLast = MatCall("none", a, a, a)
    /\ vecV \in Vectors
    /\ vecOut = NoTransform

MatNext ==
    \/ \E rhs \in Matrices : MulMatrix(rhs)
    \/ Transform

BufInit ==
    /\ unit = "buffer"
    /\ MatIdle
    /\ TriIdle
    /\ RestIdle
    /\ \E size \in Sizes, init \in Values :
          /\ buffer = BufferNew(size, init)
          /\ bufLast = BufCall("new", size, init, 0, NoBuffer)
    /\ panicked = FALSE

BufNext ==
    \/ \E size \in Sizes, init \in Values : New(size, init)
    \/ \E position \in Positions, value \in Values : SetPixel(position, value)
    \/ \E position \in Positions : GetPixel(position)
    \/ \E value \in Values : Clear(value)

(***************************************************************************)
(* RectI2 iterated  (src/src/math/mod.rs)                                  *)
(***************************************************************************)
\* the caller's record of what an iterator's next returned
Recorded(r) ==
    /\ itObj' = r.iter
    /\ itLast' = IF r.some THEN "some" ELSE "none"
    /\ itSeen' = IF r.some THEN Append(itSeen, r.item) ELSE itSeen
    /\ UNCHANGED itArgs

\* the corners handed to RectI2::try_from
AreaCorners == {Vec2(x, y) : x \in -1..MaxCorner, y \in -1..MaxCorner}

\* RectI2::try_from((start, end)).unwrap().into_iter()
AreaIntoIter ==
    /\ unit = "area"
    /\ UNCHANGED <<unit, exceptIter>>
    /\ itObj = NoIter
    /\ RectI2New(itArgs[1], itArgs[2]).some
    /\ itObj' = RectI2IterNew(RectI2New(itArgs[1], itArgs[2]))
    /\ UNCHANGED <<itArgs, itSeen, itLast>>

\* RectI2Iter::next
AreaIterNext ==
    /\ unit = "area"
    /\ UNCHANGED <<unit, exceptIter>>
    /\ itObj # NoIter
    /\ Recorded(RectI2IterNext(itObj))

\* an iterator unit before its iterator is constructed
IterStart(name, args) ==
    /\ unit = name
    /\ BufIdle
    /\ MatIdle
    /\ TriIdle
    /\ CallIdle
    /\ RectIdle
    /\ GameIdle
    /\ AppIdle
    /\ itArgs \in args
    /\ itObj = NoIter
    /\ itSeen = <<>>
    /\ itLast = "start"

AreaInit == IterStart("area", AreaCorners \X AreaCorners)

AreaNext ==
    \/ AreaIntoIter
    \/ AreaIterNext

\* C24: RectI2's iterator yields exactly the size.x * size.y positions
\* (start.x + i, start.y + j) with 0 <= i < size.x and 0 <= j < size.y, each
\* once, ordered by j then i (the end corner exclusive), and then ends.
C24_RowMajorExclusive ==
    (unit = "area" /\ itObj # NoIter) =>
        /\ Len(itSeen) <= itObj.size.x * itObj.size.y
        /\ \A k \in 1..Len(itSeen) :
              itSeen[k] = RowMajorPixel(itArgs[1], Vec2(itArgs[2].x - 1, itArgs[2].y - 1), k)
        /\ itLast = "none" => Len(itSeen) = itObj.size.x * itObj.size.y

(***************************************************************************)
(* Rasterizer with cropping, iterated  (src/src/triangles.rs)              *)
(***************************************************************************)
\* the vertices handed to RasterTriangle::new and the crop areas
CropVertices == {Vec2(x, y) : x \in -1..MaxRaster, y \in 0..MaxRaster}
CropAreas == {Vec2(x, y) : x \in 2..MaxRaster, y \in 2..MaxRaster}

\* the RasterTriangle of the arguments
CropTriangle == RasterTriangleNew(itArgs[1][1], itArgs[1][2], itArgs[1][3])

\* Rasterizer::new_with_cropping(RasterTriangle::new(..).unwrap(), crop_area).unwrap()
RasterizerBuild ==
    /\ unit = "rasterizer"
    /\ UNCHANGED <<unit, exceptIter>>
    /\ itObj = NoIter
    /\ CropTriangle.some
    /\ RasterizerNewWithCropping(CropTriangle, itArgs[2]).some
    /\ itObj' = RasterizerNewWithCropping(CropTriangle, itArgs[2])
    /\ UNCHANGED <<itArgs, itSeen, itLast>>

\* what a call of Rasterizer::next returned, as the caller records it
RasterizerReturned(r) ==
    [iter |-> r.rz, some |-> r.frag.some,
     item |-> IF r.frag.some THEN r.frag.position ELSE Vec2(0, 0)]

\* Rasterizer::next
RasterizerNext ==
    /\ unit = "rasterizer"
    /\ UNCHANGED <<unit, exceptIter>>
    /\ itObj # NoIter
    /\ Recorded(RasterizerReturned(RasterFindMap(itObj)))

RasterizerInit ==
    IterStart("rasterizer", (CropVertices \X CropVertices \X CropVertices) \X CropAreas)

RasterizerUnitNext ==
    \/ RasterizerBuild
    \/ RasterizerNext

\* C28: every fragment a Rasterizer built by new_with_cropping(triangle,
\* crop_area) yields has a position inside the crop area, 0 <= x < crop_area.x
\* and 0 <= y < crop_area.y, and inside the triangle's bounding rectangle.
C28_FragmentsInsideCrop ==
    unit = "rasterizer" =>
        \A k \in 1..Len(itSeen) :
            /\ 0 <= itSeen[k].x /\ itSeen[k].x < itArgs[2].x
            /\ 0 <= itSeen[k].y /\ itSeen[k].y < itArgs[2].y
            /\ GetArea(CropTriangle).start.x <= itSeen[k].x
            /\ itSeen[k].x <= GetArea(CropTriangle).end.x
            /\ GetArea(CropTriangle).start.y <= itSeen[k].y
            /\ itSeen[k].y <= GetArea(CropTriangle).end.y

(***************************************************************************)
(* Rect of the drawing module  (src/src/drawing/rectangle.rs)              *)
(***************************************************************************)
\* Rect::new
DrawingRectNew(start, end) ==
    IF end.x - start.x < 1 \/ end.y - start.y < 1
    THEN [some |-> FALSE]
    ELSE [some |-> TRUE, start |-> start, end |-> end, position |-> 0,
          position_end |-> (end.x - start.x) * (end.y - start.y),
          delta |-> Vec2(end.x - start.x, end.y - start.y)]

\* Rect::next
DrawingRectNext(r) ==
    IF r.position >= r.position_end
    THEN [some |-> FALSE, iter |-> r]
    ELSE [some |-> TRUE,
          item |-> Vec2(r.start.x + (r.position % r.delta.y),
                        r.start.y + (r.position \div r.delta.y)),
          iter |-> [r EXCEPT !.position = r.position + 1]]

\* Rect::new(start, end).unwrap()
DrawingNew ==
    /\ unit = "drawing"
    /\ UNCHANGED <<unit, exceptIter>>
    /\ itObj = NoIter
    /\ DrawingRectNew(itArgs[1], itArgs[2]).some
    /\ itObj' = DrawingRectNew(itArgs[1], itArgs[2])
    /\ UNCHANGED <<itArgs, itSeen, itLast>>

\* Rect::next called by the loop over the iterator
DrawingIterNext ==
    /\ unit = "drawing"
    /\ UNCHANGED <<unit, exceptIter>>
    /\ itObj # NoIter
    /\ Recorded(DrawingRectNext(itObj))

DrawingInit == IterStart("drawing", AreaCorners \X AreaCorners)

DrawingNext ==
    \/ DrawingNew
    \/ DrawingIterNext

\* C29: for every start and end with end.x - start.x >= 1 and
\* end.y - start.y >= 1, square or not, the drawing Rect iterator yields
\* exactly the delta.x * delta.y positions p with start.x <= p.x < end.x and
\* start.y <= p.y < end.y, each exactly once, and then ends.
C29_EveryPositionOnce ==
    (unit = "drawing" /\ itObj # NoIter) =>
        /\ Len(itSeen) <= itObj.delta.x * itObj.delta.y
        /\ \A k \in 1..Len(itSeen) :
              /\ itArgs[1].x <= itSeen[k].x /\ itSeen[k].x < itArgs[2].x
              /\ itArgs[1].y <= itSeen[k].y /\ itSeen[k].y < itArgs[2].y
        /\ \A j, k \in 1..Len(itSeen) : j # k => itSeen[j] # itSeen[k]
        /\ itLast = "none" => Len(itSeen) = itObj.delta.x * itObj.delta.y

(***************************************************************************)
(* Line of the drawing module  (src/src/drawing/line.rs)                   *)
(***************************************************************************)
\* i32::signum
Signum(i) == IF i > 0 THEN 1 ELSE IF i < 0 THEN -1 ELSE 0

\* the Line of Line::new once start and end are in order
LineOf(start, end) ==
    [start |-> start, end |-> end,
     delta |-> Vec2(end.x - start.x, end.y - start.y),
     position |-> Vec2(0, 0),
     increment |-> Vec2(Signum(end.x - start.x), Signum(end.y - start.y)),
     module |-> 0,
     is_x_main |-> Abs(end.x - start.x) >= Abs(end.y - start.y)]

\* Line::new: always Some
LineNew(start, end) == IF start.x < end.x THEN LineOf(start, end) ELSE LineOf(end, start)

\* the x-main branch of Line::next, module already increased
LineStepX(l, module) ==
    IF module >= Abs(l.delta.x)
    THEN [l EXCEPT !.position = Vec2(l.position.x + l.increment.x,
                                     l.position.y + l.increment.y),
                   !.module = module - Abs(l.delta.x)]
    ELSE [l EXCEPT !.position = Vec2(l.position.x + l.increment.x, l.position.y),
                   !.module = module]

\* the y-main branch of Line::next, module already increased
LineStepY(l, module) ==
    IF module > Abs(l.delta.y)
    THEN [l EXCEPT !.position = Vec2(l.position.x + l.increment.x,
                                     l.position.y + l.increment.y),
                   !.module = module % Abs(l.delta.y)]
    ELSE [l EXCEPT !.position = Vec2(l.position.x, l.position.y + l.increment.y),
                   !.module = module]

\* Line::next
LineNext(l) ==
    IF Abs(l.position.x) >= Abs(l.delta.x) \/ Abs(l.position.y) >= Abs(l.delta.y)
    THEN [some |-> FALSE, iter |-> l]
    ELSE [some |-> TRUE,
          item |-> Vec2(l.position.x + l.start.x, l.position.y + l.start.y),
          iter |-> IF l.is_x_main THEN LineStepX(l, l.module + Abs(l.delta.y))
                   ELSE LineStepY(l, l.module + Abs(l.delta.x))]

\* Line::new(start, end).unwrap()
LineBuild ==
    /\ unit = "line"
    /\ UNCHANGED <<unit, exceptIter>>
    /\ itObj = NoIter
    /\ itObj' = LineNew(itArgs[1], itArgs[2])
    /\ UNCHANGED <<itArgs, itSeen, itLast>>

\* Line::next called by the loop over the iterator
LineIterNext ==
    /\ unit = "line"
    /\ UNCHANGED <<unit, exceptIter>>
    /\ itObj # NoIter
    /\ Recorded(LineNext(itObj))

LineInit == IterStart("line", AreaCorners \X AreaCorners)

LineUnitNext ==
    \/ LineBuild
    \/ LineIterNext

\* a point lies in the axis-aligned box spanned by two endpoints
InSpan(p, a, b) ==
    /\ MinI(a.x, b.x) <= p.x /\ p.x <= MaxI(a.x, b.x)
    /\ MinI(a.y, b.y) <= p.y /\ p.y <= MaxI(a.y, b.y)

\* C30: for any two distinct endpoints the Line iterator terminates (it
\* yields no more points than the box has columns and rows) and yields a
\* non-empty sequence of points that begins at the endpoint with the smaller
\* x, stays inside the axis-aligned box spanned by the endpoints, and in which
\* consecutive points differ by at most 1 in x and at most 1 in y.
C30_LineWalk ==
    (unit = "line" /\ itObj # NoIter /\ itArgs[1] # itArgs[2]) =>
        /\ Len(itSeen) <= Abs(itObj.delta.x) + Abs(itObj.delta.y) + 1
        /\ itLast = "none" => Len(itSeen) >= 1
        /\ Len(itSeen) >= 1 =>
              /\ itSeen[1] \in {itArgs[1], itArgs[2]}
              /\ itSeen[1].x = MinI(itArgs[1].x, itArgs[2].x)
        /\ \A k \in 1..Len(itSeen) : InSpan(itSeen[k], itArgs[1], itArgs[2])
        /\ \A k \in 1..(Len(itSeen) - 1) :
              /\ Abs(itSeen[k + 1].x - itSeen[k].x) <= 1
              /\ Abs(itSeen[k + 1].y - itSeen[k].y) <= 1

(***************************************************************************)
(* App  (src/src/game.rs).  The game behind Box<dyn Game> is any           *)
(* implementation of the trait; here it records the events it was given    *)
(* since the last clear_events and what it had when update last ran.       *)
(***************************************************************************)
\* App.state: None, or the WindowState of the window with this id
NoState == [some |-> FALSE]
SomeState(id) == [some |-> TRUE, id |-> id]

\* the windows of the event loop
Windows == {1, 2}

\* the window events delivered
AppEvents ==
    {[kind |-> k] : k \in {"RedrawRequested", "CloseRequested", "Resized", "Focused"}}

\* Game::new_event of the recording game
GameNewEvent(g, event) == [g EXCEPT !.events = Append(g.events, event)]

\* Game::clear_events of the recording game
GameClearEvents(g) == [g EXCEPT !.events = <<>>]

\* Game::update of the recording game
GameUpdate(g, state) == [g EXCEPT !.seen = g.events]

\* App::new
AppNew(g) == [state |-> NoState, game |-> g]

\* what a call of window_event leaves: the App and the calls made on the game
Handled(a, calls) == [app |-> a, calls |-> calls]

\* the match of window_event on the event, the state taken out of the App
Dispatched(a, state, event) ==
    IF event.kind = "RedrawRequested"
    THEN Handled([state |-> state, game |-> GameClearEvents(GameUpdate(a.game, state))],
                 <<[fn |-> "update", state |-> state], [fn |-> "clear_events"]>>)
    ELSE Handled([state |-> state, game |-> GameNewEvent(a.game, event)],
                 <<[fn |-> "new_event", event |-> event]>>)

\* mutant of WindowEvent: the window id is not compared
WindowEventAnyWindow(a, id, event) ==
    IF ~a.state.some
    THEN Handled([a EXCEPT !.state = NoState], <<>>)
    ELSE Dispatched(a, a.state, event)

\* App::window_event
WindowEvent(a, id, event) ==
    IF ~a.state.some
    THEN Handled([a EXCEPT !.state = NoState], <<>>)
    ELSE IF id # a.state.id
    THEN Handled([a EXCEPT !.state = a.state], <<>>)
    ELSE Dispatched(a, a.state, event)

\* App::resumed: WindowState::new may return None
AppResumed(state) ==
    /\ unit = "app"
    /\ UNCHANGED <<unit, exceptApp>>
    /\ app' = [app EXCEPT !.state = state]
    /\ appLast' = [fn |-> "resumed"]

\* the event loop calls window_event
AppWindowEvent(id, event) ==
    /\ unit = "app"
    /\ UNCHANGED <<unit, exceptApp>>
    /\ Len(WindowEvent(app, id, event).app.game.events) <= MaxPending
    /\ app' = WindowEvent(app, id, event).app
    /\ appLast' = [fn |-> "window_event", id |-> id, event |-> event, before |-> app,
                   calls |-> WindowEvent(app, id, event).calls]

AppInit ==
    /\ unit = "app"
    /\ BufIdle
    /\ MatIdle
    /\ TriIdle
    /\ CallIdle
    /\ RectIdle
    /\ GameIdle
    /\ IterIdle
    /\ app = AppNew([events |-> <<>>, seen |-> <<>>])
    /\ appLast = [fn |-> "new"]

AppNext ==
    \/ \E state \in {NoState} \cup {SomeState(id) : id \in Windows} : AppResumed(state)
    \/ \E id \in Windows, event \in AppEvents : AppWindowEvent(id, event)

\* the last window_event was for the window the App held
OwnWindow == appLast.before.state.some /\ appLast.id = appLast.before.state.id

\* C27: App::window_event calls Game::update only for a RedrawRequested event
\* of the App's own window, and clear_events right after it; passes every
\* other event of that window to new_event once, without update; lets events
\* of other windows reach the game not at all; and leaves the WindowState
\* present whenever it was present before the call.
C27_DispatchProtocol ==
    appLast.fn = "window_event" =>
        /\ (OwnWindow /\ appLast.event.kind = "RedrawRequested") =>
              /\ appLast.calls = <<[fn |-> "update", state |-> appLast.before.state],
                                   [fn |-> "clear_events"]>>
              /\ app.game.events = <<>>
              /\ app.game.seen = appLast.before.game.events
        /\ (OwnWindow /\ appLast.event.kind # "RedrawRequested") =>
              /\ appLast.calls = <<[fn |-> "new_event", event |-> appLast.event]>>
              /\ app.game = GameNewEvent(appLast.before.game, appLast.event)
        /\ ~OwnWindow =>
              /\ appLast.calls = <<>>
              /\ app.game = appLast.before.game
        /\ appLast.before.state.some => app.state = appLast.before.state

\* C27 witness: with events pending, a RedrawRequested for another window was
\* left alone and the WindowState put back
C27_Witness ==
    /\ appLast.fn = "window_event"
    /\ appLast.before.state.some
    /\ appLast.id # appLast.before.state.id
    /\ appLast.event.kind = "RedrawRequested"
    /\ Len(app.game.events) = 2
    /\ app.state.some

SpecBuf == BufInit /\ [][BufNext]_vars
SpecMat == MatInit /\ [][MatNext]_vars
SpecTri == TriInit /\ [][TriNext]_vars
SpecTriW == TriWInit /\ [][TriNext]_vars
SpecCall == CallInit /\ [][CallNext]_vars
SpecRect == RectInit /\ [][RectNext]_vars
SpecGame == GameInit /\ [][GameNext]_vars
SpecArea == AreaInit /\ [][AreaNext]_vars
SpecApp == AppInit /\ [][AppNext]_vars
SpecRasterizer == RasterizerInit /\ [][RasterizerUnitNext]_vars
SpecDrawing == DrawingInit /\ [][DrawingNext]_vars
SpecLine == LineInit /\ [][LineUnitNext]_vars

Init ==
    \/ BufInit \/ MatInit \/ TriInit \/ TriWInit \/ CallInit \/ RectInit \/ GameInit
    \/ AreaInit \/ AppInit \/ RasterizerInit \/ DrawingInit \/ LineInit
Next ==
    \/ BufNext \/ MatNext \/ TriNext \/ CallNext \/ RectNext \/ GameNext
    \/ AreaNext \/ AppNext \/ RasterizerUnitNext \/ DrawingNext \/ LineUnitNext
Spec == Init /\ [][Next]_vars

====
